---- MODULE Spec2Model ----
(***************************************************************************)
(* Multi-host aggregation and version resolution of pocker.                *)
(*                                                                         *)
(* Strings are TLA+ strings used as character sequences (Len, SubSeq, \o). *)
(* A nullable JavaScript value (null or undefined) is the sentinel NULL,   *)
(* whose characters lie outside the alphabet of every modelled string.     *)
(***************************************************************************)
EXTENDS Integers, Sequences, FiniteSets, TLC

NULL == "<null>"

(***************************************************************************)
(* Characters.  Ascii lists the modelled alphabet in code-unit order, so   *)
(* the position of a character orders it as JavaScript's < on strings.     *)
(***************************************************************************)
Ascii == " +-./0123456789:@ABCDEFGHIJKLMNOPQRSTUVWXYZ_abcdefghijklmnopqrstuvwxyz"
Digits == "0123456789"
UpperChars == "ABCDEFGHIJKLMNOPQRSTUVWXYZ"
LowerChars == "abcdefghijklmnopqrstuvwxyz"
HexChars == "0123456789abcdefABCDEF"

\* s.slice(m - 1, n): the characters m..n of s that exist.
Sub(s, m, n) ==
  LET lo == IF m < 1 THEN 1 ELSE m
      hi == IF n > Len(s) THEN Len(s) ELSE n
  IN IF lo > hi THEN "" ELSE SubSeq(s, lo, hi)

CharAt(s, i) == Sub(s, i, i)

\* The alphabets the string functions look characters up in, and the
\* 1-based position of every character in each of them.
LowerHexChars == "0123456789abcdef"
Separators == "-_"
LowerAlphanumerics == "abcdefghijklmnopqrstuvwxyz0123456789"
Alphabets ==
  { Ascii, Digits, UpperChars, LowerChars, HexChars, LowerHexChars, Separators,
    LowerAlphanumerics }

Position ==
  [alphabet \in Alphabets |->
     [c \in { CharAt(alphabet, i) : i \in 1..Len(alphabet) } |->
        CHOOSE i \in 1..Len(alphabet) : CharAt(alphabet, i) = c]]

IndexIn(c, alphabet) ==
  IF c \in DOMAIN Position[alphabet] THEN Position[alphabet][c] ELSE 0

Ord(c) == IndexIn(c, Ascii)

IsDigitChar(c) == IndexIn(c, Digits) > 0

\* String.prototype.toLowerCase on the modelled alphabet.
LowerChar(c) ==
  IF IndexIn(c, UpperChars) > 0 THEN CharAt(LowerChars, IndexIn(c, UpperChars)) ELSE c

RECURSIVE ToLower(_)
ToLower(s) ==
  IF Len(s) = 0 THEN ""
  ELSE LowerChar(CharAt(s, 1)) \o ToLower(Sub(s, 2, Len(s)))

\* String.prototype.trim: the only white space of the alphabet is the blank.
RECURSIVE TrimLeft(_)
TrimLeft(s) ==
  IF Len(s) > 0 /\ CharAt(s, 1) = " " THEN TrimLeft(Sub(s, 2, Len(s))) ELSE s

RECURSIVE TrimRight(_)
TrimRight(s) ==
  IF Len(s) > 0 /\ CharAt(s, Len(s)) = " " THEN TrimRight(Sub(s, 1, Len(s) - 1)) ELSE s

Trim(s) == TrimRight(TrimLeft(s))

\* JavaScript's a < b on strings: lexicographic on code units, a proper
\* prefix is smaller.
RECURSIVE StrLess(_, _)
StrLess(s, t) ==
  IF Len(t) = 0 THEN FALSE
  ELSE IF Len(s) = 0 THEN TRUE
  ELSE IF CharAt(s, 1) = CharAt(t, 1)
       THEN StrLess(Sub(s, 2, Len(s)), Sub(t, 2, Len(t)))
       ELSE Ord(CharAt(s, 1)) < Ord(CharAt(t, 1))

\* String.prototype.split on a set of one-character separators: the pieces
\* between separators, empty pieces included.
RECURSIVE SplitFrom(_, _, _)
SplitFrom(s, seps, cur) ==
  IF Len(s) = 0 THEN <<cur>>
  ELSE IF CharAt(s, 1) \in seps
       THEN <<cur>> \o SplitFrom(Sub(s, 2, Len(s)), seps, "")
       ELSE SplitFrom(Sub(s, 2, Len(s)), seps, cur \o CharAt(s, 1))

Split(s, seps) == SplitFrom(s, seps, "")

RECURSIVE SelectSeqNonEmpty(_)
SelectSeqNonEmpty(parts) ==
  IF Len(parts) = 0 THEN <<>>
  ELSE IF Len(Head(parts)) > 0 THEN <<Head(parts)>> \o SelectSeqNonEmpty(Tail(parts))
  ELSE SelectSeqNonEmpty(Tail(parts))

IsDigitStr(s) == Len(s) > 0 /\ \A i \in 1..Len(s) : IsDigitChar(CharAt(s, i))

RECURSIVE DecimalValue(_)
DecimalValue(s) ==
  IF Len(s) = 0 THEN 0
  ELSE 10 * DecimalValue(Sub(s, 1, Len(s) - 1)) + (IndexIn(CharAt(s, Len(s)), Digits) - 1)

Sign(n) == IF n < 0 THEN -1 ELSE IF n > 0 THEN 1 ELSE 0

(***************************************************************************)
(* Version Comparator (src/lib/utils/version.ts).                          *)
(***************************************************************************)
LATEST_TOKEN == "latest"

Falsy(value) == value = NULL \/ value = ""

normalize(value) == IF Falsy(value) THEN NULL ELSE Trim(value)

\* isLatest without the lower-casing.
isLatestExact(value) == normalize(value) = LATEST_TOKEN

isLatest(value) ==
  LET n == normalize(value) IN n # NULL /\ ToLower(n) = LATEST_TOKEN

\* A segment is a record: num = TRUE with its numeric value n, or num = FALSE
\* with its lower-cased text s.  Number(segment) of a segment of decimal
\* digits is its decimal value and is NaN for every other segment of the
\* version strings modelled here (none has an exponent, a radix prefix or
\* the text Infinity).
NumberIsNaN(segment) == ~IsDigitStr(segment)

\* The map callback keeping every segment as text.
ToSegmentText(segment) == [num |-> FALSE, n |-> 0, s |-> ToLower(segment)]

ToSegment(segment) ==
  IF NumberIsNaN(segment)
  THEN [num |-> FALSE, n |-> 0, s |-> ToLower(segment)]
  ELSE [num |-> TRUE, n |-> DecimalValue(segment), s |-> ""]

StripLeadingV(value) ==
  IF Len(value) > 0 /\ CharAt(value, 1) \in {"v", "V"}
  THEN Sub(value, 2, Len(value)) ELSE value

segmentify(value) ==
  LET cleaned == StripLeadingV(value)
      base == Split(cleaned, {"+", "-"})[1]
      parts == SelectSeqNonEmpty(Split(base, {".", "_"}))
  IN [i \in 1..Len(parts) |-> ToSegment(parts[i])]

isDigest(value) ==
  Len(value) >= 12 /\ \A i \in 1..Len(value) : IndexIn(CharAt(value, i), HexChars) > 0

RECURSIVE DecimalString(_)
DecimalString(n) ==
  IF n < 10 THEN CharAt(Digits, n + 1)
  ELSE DecimalString(n \div 10) \o CharAt(Digits, (n % 10) + 1)

\* String(segment)
SegmentString(seg) == IF seg.num THEN DecimalString(seg.n) ELSE seg.s

Max2(x, y) == IF x >= y THEN x ELSE y

RECURSIVE compareSegments(_, _, _)
compareSegments(leftSegments, rightSegments, i) ==
  IF i > Max2(Len(leftSegments), Len(rightSegments)) THEN 0
  ELSE IF i > Len(leftSegments) THEN -1
  ELSE IF i > Len(rightSegments) THEN 1
  ELSE LET leftSegment == leftSegments[i]
           rightSegment == rightSegments[i]
       IN IF leftSegment = rightSegment
          THEN compareSegments(leftSegments, rightSegments, i + 1)
          ELSE IF leftSegment.num /\ rightSegment.num
               THEN leftSegment.n - rightSegment.n
               ELSE IF StrLess(SegmentString(leftSegment), SegmentString(rightSegment)) THEN -1
               ELSE IF StrLess(SegmentString(rightSegment), SegmentString(leftSegment)) THEN 1
               ELSE compareSegments(leftSegments, rightSegments, i + 1)
\* compareVersions with the "latest" rule tested on the left operand only.
compareVersionsLatestFirst(a, b) ==
  LET left == normalize(a)
      right == normalize(b)
  IN IF Falsy(left) /\ Falsy(right) THEN 0
     ELSE IF Falsy(left) THEN -1
     ELSE IF Falsy(right) THEN 1
     ELSE IF left = right THEN 0
     ELSE IF isLatest(left) THEN 1
     ELSE IF isLatest(right) /\ ~isLatest(left) THEN -1
     ELSE IF isDigest(left) /\ isDigest(right)
          THEN (IF StrLess(left, right) THEN -1 ELSE IF StrLess(right, left) THEN 1 ELSE 0)
     ELSE IF isDigest(left) /\ ~isDigest(right) THEN 1
     ELSE IF isDigest(right) /\ ~isDigest(left) THEN -1
     ELSE compareSegments(segmentify(left), segmentify(right), 1)

compareVersions(a, b) ==
  LET left == normalize(a)
      right == normalize(b)
  IN IF Falsy(left) /\ Falsy(right) THEN 0
     ELSE IF Falsy(left) THEN -1
     ELSE IF Falsy(right) THEN 1
     ELSE IF left = right THEN 0
     ELSE IF isLatest(left) /\ ~isLatest(right) THEN 1
     ELSE IF isLatest(right) /\ ~isLatest(left) THEN -1
     ELSE IF isDigest(left) /\ isDigest(right)
          THEN (IF StrLess(left, right) THEN -1 ELSE IF StrLess(right, left) THEN 1 ELSE 0)
     ELSE IF isDigest(left) /\ ~isDigest(right) THEN 1
     ELSE IF isDigest(right) /\ ~isDigest(left) THEN -1
     ELSE compareSegments(segmentify(left), segmentify(right), 1)

(***************************************************************************)
(* Generic string and sequence helpers used by the image parser and the    *)
(* aggregator.                                                             *)
(***************************************************************************)
Includes(s, sub) ==
  \E i \in 1..(Len(s) - Len(sub) + 1) : Sub(s, i, i + Len(sub) - 1) = sub

StartsWith(s, prefix) == Len(s) >= Len(prefix) /\ Sub(s, 1, Len(prefix)) = prefix

\* String.prototype.lastIndexOf, 1-based, 0 when absent (JavaScript: -1).
LastIndexOf(s, c) ==
  IF \E i \in 1..Len(s) : CharAt(s, i) = c
  THEN CHOOSE i \in 1..Len(s) : CharAt(s, i) = c /\ \A j \in (i + 1)..Len(s) : CharAt(s, j) # c
  ELSE 0

\* First position at which sub occurs in s, 0 when absent.
IndexOf(s, sub) ==
  IF Includes(s, sub)
  THEN CHOOSE i \in 1..(Len(s) - Len(sub) + 1) :
         /\ Sub(s, i, i + Len(sub) - 1) = sub
         /\ \A j \in 1..(i - 1) : Sub(s, j, j + Len(sub) - 1) # sub
  ELSE 0

RECURSIVE Join(_, _)
Join(parts, sep) ==
  IF Len(parts) = 0 THEN ""
  ELSE IF Len(parts) = 1 THEN parts[1]
  ELSE parts[1] \o sep \o Join(Tail(parts), sep)

\* End (inclusive) of the longest run of characters of `alphabet` that starts
\* at position i of s; i - 1 when s has no such character at i.
RECURSIVE RunEnd(_, _, _)
RunEnd(s, i, alphabet) ==
  IF i <= Len(s) /\ IndexIn(CharAt(s, i), alphabet) > 0
  THEN RunEnd(s, i + 1, alphabet) ELSE i - 1

SeqToSet(q) == { q[i] : i \in 1..Len(q) }

\* q.slice(m - 1, n) on a sequence.
SeqSlice(q, m, n) == IF m > n THEN <<>> ELSE SubSeq(q, m, n)

\* The results of a comparator on the elements of q, by position:
\* c[i][j] is compareFn(q[i], q[j]).
\* Array.prototype.sort with a comparator that is consistent on the elements:
\* the stable sorted order.  Element i goes behind every element that compares
\* lower and behind every equal element that stood before it.
StableSort(q, c) ==
  LET n == Len(q)
      rank == [i \in 1..n |-> 1 + Cardinality({ j \in (1..n) \ {i} :
                                   c[j][i] < 0 \/ (c[j][i] = 0 /\ j < i) })]
  IN [k \in 1..n |-> q[CHOOSE i \in 1..n : rank[i] = k]]

\* All orderings of the elements of q.
Arrangements(q) ==
  LET n == Len(q)
  IN { [i \in 1..n |-> q[p[i]]] :
         p \in { f \in [1..n -> 1..n] : \A i, j \in 1..n : f[i] = f[j] => i = j } }

\* ECMAScript's "consistent comparator" on the elements being sorted.
ConsistentComparator(c) ==
  LET idx == DOMAIN c
      sign == [x \in idx |-> [y \in idx |-> Sign(c[x][y])]]
  IN /\ \A x \in idx : sign[x][x] = 0
     /\ \A x, y \in idx : sign[x][y] = -sign[y][x]
     /\ \A x, y, z \in idx :
          /\ (sign[x][y] = 0 /\ sign[y][z] = 0) => sign[x][z] = 0
          /\ (sign[x][y] < 0 /\ sign[y][z] < 0) => sign[x][z] < 0
          /\ (sign[x][y] < 0 /\ sign[y][z] = 0) => sign[x][z] < 0
          /\ (sign[x][y] = 0 /\ sign[y][z] < 0) => sign[x][z] < 0

\* Array.prototype.sort(compareFn): the stable order when the comparator is
\* consistent on the elements, otherwise an implementation-defined order.
SortOutcomes(q, c) ==
  IF ConsistentComparator(c) THEN { StableSort(q, c) } ELSE Arrangements(q)

\* versions.sort(compareVersions): the comparator's results by position.
byVersion(q) ==
  [i \in 1..Len(q) |-> [j \in 1..Len(q) |-> compareVersions(q[i], q[j])]]

(***************************************************************************)
(* Image references (src/lib/server/image.ts).                             *)
(***************************************************************************)
parseImageReference(input) ==
  LET pieces == Split(input, {"@"})
      referencePart == pieces[1]
      digest == IF Len(pieces) >= 2 THEN pieces[2] ELSE NULL
      lastSlash == LastIndexOf(referencePart, "/")
      lastColon == LastIndexOf(referencePart, ":")
      hasTag == lastColon > lastSlash
      tag == IF hasTag THEN Sub(referencePart, lastColon + 1, Len(referencePart)) ELSE NULL
      path == IF hasTag THEN Sub(referencePart, 1, lastColon - 1) ELSE referencePart
      segments == Split(path, {"/"})
      hasRegistry ==
        /\ Len(segments) > 1
        /\ (Includes(segments[1], ".") \/ Includes(segments[1], ":") \/ segments[1] = "localhost")
      registry == IF hasRegistry THEN segments[1] ELSE NULL
      rest == IF hasRegistry THEN Tail(segments) ELSE segments
  IN [ registry |-> IF registry = "docker.io" THEN NULL ELSE registry,
       repository |-> Join(rest, "/"),
       tag |-> tag,
       digest |-> digest ]

\* getImageBase returning registry and repository as written.
getImageBaseAsWritten(ref) ==
  IF ~Falsy(ref.registry) THEN ref.registry \o "/" \o ref.repository ELSE ref.repository

getImageBase(ref) ==
  LET repo == Trim(ToLower(ref.repository))
  IN IF ~Falsy(ref.registry)
     THEN LET reg == Trim(ToLower(ref.registry))
          IN IF reg = "docker.io" \/ reg = "index.docker.io" THEN repo
             ELSE reg \o "/" \o repo
     ELSE repo

friendlyImageName(ref) ==
  LET parts == Split(ref.repository, {"/"}) IN parts[Len(parts)]

(***************************************************************************)
(* Container records and ServerInstances (aggregator, toServerInstance).   *)
(* A ContainerInfo is [Id, Image, ImageID, State, Status, Labels]; Labels  *)
(* maps every key of LabelKeys to its value or to NULL when it is absent.  *)
(***************************************************************************)
LabelKeys ==
  { "org.opencontainers.image.version", "org.opencontainers.image.description",
    "homelab.app", "homelab.name", "homelab.display", "homelab.description",
    "homelab.icon", "app.icon", "icon", "description", "com.docker.compose.service",
    "com.docker.swarm.service.name" }

NoLabels == [k \in LabelKeys |-> NULL]

\* container.Labels of a container without labels is NoLabels; the copy keeps
\* every key.
safeLabels(labels) == [k \in LabelKeys |-> labels[k]]

\* Semantic-version shape vN.N.N[...] of $lib/utils/version (isSemanticVersion).
isSemanticVersion(value) ==
  IF Falsy(value) THEN FALSE
  ELSE LET start == IF CharAt(value, 1) = "v" THEN 2 ELSE 1
           e1 == RunEnd(value, start, Digits)
           e2 == RunEnd(value, e1 + 2, Digits)
           e3 == RunEnd(value, e2 + 2, Digits)
       IN /\ e1 >= start /\ CharAt(value, e1 + 1) = "."
          /\ e2 >= e1 + 2 /\ CharAt(value, e2 + 1) = "."
          /\ e3 >= e2 + 2

\* container.Status.match(/Exited \((\d+)\)/): the exit code, NoExitCode (the
\* null exit code; a parsed code is never negative) when the status does not
\* match or the container has not exited.
NoExitCode == -1

ExitedPrefix == "Exited ("

ExitCodeMatches(status) ==
  { i \in 1..Len(status) :
      /\ Sub(status, i, i + Len(ExitedPrefix) - 1) = ExitedPrefix
      /\ RunEnd(status, i + Len(ExitedPrefix), Digits) >= i + Len(ExitedPrefix)
      /\ CharAt(status, RunEnd(status, i + Len(ExitedPrefix), Digits) + 1) = ")" }

parseExitCode(state, status) ==
  IF state = "exited" /\ ~Falsy(status) /\ ExitCodeMatches(status) # {}
  THEN LET i == CHOOSE m \in ExitCodeMatches(status) : \A o \in ExitCodeMatches(status) : m <= o
           from == i + Len(ExitedPrefix)
       IN DecimalValue(Sub(status, from, RunEnd(status, from, Digits)))
  ELSE NoExitCode

\* image.match(/@(sha256:[a-f0-9]+)/)?.[1]
Sha256Prefix == "sha256:"

Sha256Matches(image) ==
  { i \in 1..Len(image) :
      /\ Sub(image, i, i + Len(Sha256Prefix)) = "@" \o Sha256Prefix
      /\ RunEnd(image, i + Len(Sha256Prefix) + 1, LowerHexChars) >= i + Len(Sha256Prefix) + 1 }

matchSha256(image) ==
  IF Sha256Matches(image) = {} THEN NULL
  ELSE LET i == CHOOSE m \in Sha256Matches(image) : \A o \in Sha256Matches(image) : m <= o
       IN Sub(image, i + 1, RunEnd(image, i + Len(Sha256Prefix) + 1, LowerHexChars))

toServerInstance(source, container) ==
  LET labels == safeLabels(container.Labels)
      imageDigest ==
        IF ~Falsy(container.Image) /\ Includes(container.Image, "@" \o Sha256Prefix)
        THEN matchSha256(container.Image)
        ELSE IF ~Falsy(container.ImageID) /\ StartsWith(container.ImageID, Sha256Prefix)
             THEN container.ImageID
             ELSE NULL
  IN [ sourceId |-> source.name,
       sourceLabel |-> source.displayName,
       containerId |-> container.Id,
       state |-> IF container.State = NULL THEN "unknown" ELSE container.State,
       exitCode |-> parseExitCode(container.State, container.Status),
       version |-> labels["org.opencontainers.image.version"],
       imageDigest |-> imageDigest ]

\* resolveAppId consulting the service labels before the image base.
resolveAppIdServiceFirst(labels, imageBase, fallback) ==
  IF ~Falsy(labels["homelab.app"]) THEN labels["homelab.app"]
  ELSE IF labels["com.docker.compose.service"] # NULL
       THEN labels["com.docker.compose.service"]
  ELSE IF labels["com.docker.swarm.service.name"] # NULL
       THEN labels["com.docker.swarm.service.name"]
  ELSE LET normalizedBase == Trim(IF Falsy(imageBase) THEN "" ELSE imageBase)
       IN IF normalizedBase # "" THEN normalizedBase ELSE fallback

resolveAppId(labels, imageBase, fallback) ==
  IF ~Falsy(labels["homelab.app"]) THEN labels["homelab.app"]
  ELSE LET normalizedBase == Trim(IF Falsy(imageBase) THEN "" ELSE imageBase)
       IN IF normalizedBase # "" THEN normalizedBase
          ELSE IF labels["com.docker.compose.service"] # NULL
               THEN labels["com.docker.compose.service"]
          ELSE IF labels["com.docker.swarm.service.name"] # NULL
               THEN labels["com.docker.swarm.service.name"]
          ELSE fallback

\* imageDigest.replace('sha256:', '')
RemoveFirst(s, sub) ==
  LET i == IndexOf(s, sub)
  IN IF i = 0 THEN s ELSE Sub(s, 1, i - 1) \o Sub(s, i + Len(sub), Len(s))

Slice(s, n) == Sub(s, 1, IF Len(s) < n THEN Len(s) ELSE n)

\* The version a container contributes to its app (getAggregatedApps, the
\* synchronous version extraction).
containerVersion(container) ==
  LET labels == safeLabels(container.Labels)
      ref == parseImageReference(container.Image)
      versionLabel == labels["org.opencontainers.image.version"]
      imageDigest ==
        IF ~Falsy(container.ImageID) /\ StartsWith(container.ImageID, Sha256Prefix)
        THEN container.ImageID
        ELSE IF Includes(container.Image, "@" \o Sha256Prefix)
             THEN matchSha256(container.Image)
             ELSE NULL
  IN IF ~Falsy(versionLabel) /\ isSemanticVersion(versionLabel) THEN versionLabel
     ELSE IF ~Falsy(ref.tag) /\ ref.tag # "latest" /\ ref.tag # "nightly" THEN ref.tag
     ELSE IF ~Falsy(versionLabel) THEN versionLabel
     ELSE IF ~Falsy(ref.tag) THEN ref.tag
     ELSE IF ~Falsy(imageDigest) THEN Slice(RemoveFirst(imageDigest, Sha256Prefix), 12)
     ELSE NULL

\* The payload getAggregatedApps hands to upsertWorkingApp for one container.
containerPayload(source, container) ==
  LET labels == safeLabels(container.Labels)
      ref == parseImageReference(container.Image)
      appName == IF labels["homelab.name"] # NULL THEN labels["homelab.name"]
                 ELSE friendlyImageName(ref)
      displayName == IF labels["homelab.display"] # NULL THEN labels["homelab.display"]
                     ELSE appName
  IN [ appId |-> resolveAppId(labels, getImageBase(ref), appName),
       appName |-> appName,
       displayName |-> displayName,
       image |-> container.Image,
       labels |-> labels,
       iconHint |-> labels["homelab.icon"],
       descriptionHint |-> labels["homelab.description"],
       instance |-> toServerInstance(source, container),
       version |-> containerVersion(container) ]

\* workingApps is the Map in insertion order: a sequence of WorkingApp.
HasApp(map, appId) == \E i \in 1..Len(map) : map[i].app.id = appId

AppIndex(map, appId) == CHOOSE i \in 1..Len(map) : map[i].app.id = appId

\* upsertWorkingApp creating the app without its first instance.
upsertWorkingAppEmpty(map, payload) ==
  IF ~HasApp(map, payload.appId)
  THEN Append(map,
         [ app |-> [ id |-> payload.appId, name |-> payload.appName,
                     displayName |-> payload.displayName, image |-> payload.image,
                     versions |-> IF ~Falsy(payload.version) THEN <<payload.version>> ELSE <<>>,
                     latestVersion |-> NULL, icon |-> NULL, description |-> NULL,
                     containers |-> <<>> ],
           labels |-> payload.labels, iconHint |-> payload.iconHint,
           descriptionHint |-> payload.descriptionHint ])
  ELSE LET i == AppIndex(map, payload.appId)
       IN [map EXCEPT ![i].app.containers = Append(@, payload.instance)]

upsertWorkingApp(map, payload) ==
  IF ~HasApp(map, payload.appId)
  THEN Append(map,
         [ app |-> [ id |-> payload.appId,
                     name |-> payload.appName,
                     displayName |-> payload.displayName,
                     image |-> payload.image,
                     versions |-> IF ~Falsy(payload.version) THEN <<payload.version>> ELSE <<>>,
                     latestVersion |-> NULL,
                     icon |-> NULL,
                     description |-> NULL,
                     containers |-> <<payload.instance>> ],
           labels |-> payload.labels,
           iconHint |-> payload.iconHint,
           descriptionHint |-> payload.descriptionHint ])
  ELSE LET i == AppIndex(map, payload.appId)
           existing == map[i]
           versions ==
             IF ~Falsy(payload.version) /\ payload.version \notin SeqToSet(existing.app.versions)
             THEN Append(existing.app.versions, payload.version)
             ELSE existing.app.versions
       IN [map EXCEPT ![i] =
            [ app |-> [existing.app EXCEPT !.containers = Append(@, payload.instance),
                                           !.versions = versions],
              labels |-> existing.labels,
              iconHint |-> IF Falsy(existing.iconHint) /\ ~Falsy(payload.iconHint)
                           THEN payload.iconHint ELSE existing.iconHint,
              descriptionHint |-> IF Falsy(existing.descriptionHint) /\ ~Falsy(payload.descriptionHint)
                                  THEN payload.descriptionHint ELSE existing.descriptionHint ]]

\* The grouping loops of getAggregatedApps over containerMatrix, a sequence
\* of [source, containers] in the order of settings.dockerSources.
RECURSIVE upsertContainers(_, _, _)
upsertContainers(map, source, containers) ==
  IF Len(containers) = 0 THEN map
  ELSE upsertContainers(upsertWorkingApp(map, containerPayload(source, Head(containers))),
                        source, Tail(containers))

RECURSIVE groupContainers(_, _)
groupContainers(map, containerMatrix) ==
  IF Len(containerMatrix) = 0 THEN map
  ELSE groupContainers(
         upsertContainers(map, Head(containerMatrix).source, Head(containerMatrix).containers),
         Tail(containerMatrix))

(***************************************************************************)
(* Response assembly of getAggregatedApps: ordering and per-host           *)
(* statistics.                                                             *)
(***************************************************************************)
\* String.prototype.localeCompare on the modelled names (letters, digits):
\* letters order alphabetically without regard to case, and of two names that
\* differ only in case the one with the lower-case letter first comes first.
RECURSIVE CaseLess(_, _)
CaseLess(a, b) ==
  IF Len(a) = 0 \/ Len(b) = 0 THEN FALSE
  ELSE IF CharAt(a, 1) = CharAt(b, 1) THEN CaseLess(Sub(a, 2, Len(a)), Sub(b, 2, Len(b)))
  ELSE IndexIn(CharAt(a, 1), LowerChars) > 0

localeCompare(a, b) ==
  IF a = b THEN 0
  ELSE IF StrLess(ToLower(a), ToLower(b)) THEN -1
  ELSE IF StrLess(ToLower(b), ToLower(a)) THEN 1
  ELSE IF CaseLess(a, b) THEN -1 ELSE 1

bySourceLabel(q) ==
  [i \in 1..Len(q) |-> [j \in 1..Len(q) |->
     localeCompare(q[i].sourceLabel, q[j].sourceLabel)]]

byDisplayName(q) ==
  [i \in 1..Len(q) |-> [j \in 1..Len(q) |->
     localeCompare(q[i].displayName, q[j].displayName)]]

\* Default Array.prototype.sort() on strings: code-unit order.
byCodeUnits(q) ==
  [i \in 1..Len(q) |-> [j \in 1..Len(q) |->
     IF StrLess(q[i], q[j]) THEN -1 ELSE IF StrLess(q[j], q[i]) THEN 1 ELSE 0]]

\* Array.from(new Set(q)): first occurrences in order.
RECURSIVE Dedup(_)
Dedup(q) ==
  IF Len(q) = 0 THEN <<>>
  ELSE LET front == Dedup(SeqSlice(q, 1, Len(q) - 1))
       IN IF q[Len(q)] \in SeqToSet(front) THEN front ELSE Append(front, q[Len(q)])

\* The (app, container) pairs in the order of the statistics loops.
RECURSIVE instancePairs(_)
instancePairs(appList) ==
  IF Len(appList) = 0 THEN <<>>
  ELSE [i \in 1..Len(Head(appList).containers) |->
          [app |-> Head(appList), container |-> Head(appList).containers[i]]]
       \o instancePairs(Tail(appList))

isCrashed(container) ==
  container.state # "running" /\ container.exitCode # NoExitCode /\ container.exitCode # 0
\* The outdated test without the guard on the instance's version.
isOutdatedUnguarded(app, container) ==
  /\ ~Falsy(app.latestVersion)
  /\ compareVersions(container.version, app.latestVersion) < 0

isOutdated(app, container) ==
  /\ ~Falsy(app.latestVersion)
  /\ ~Falsy(container.version)
  /\ compareVersions(container.version, app.latestVersion) < 0

HasStats(statsMap, label) == \E i \in 1..Len(statsMap) : statsMap[i].sourceLabel = label

\* countInstance counting a crashed container as crashed only, not as
\* stopped.
countInstanceCrashedApart(statsMap, systemInfoMap, app, container) ==
  LET fresh == [ sourceId |-> container.sourceId,
                 sourceLabel |-> container.sourceLabel,
                 total |-> 0, running |-> 0, stopped |-> 0, crashed |-> 0, outdated |-> 0,
                 systemInfo |-> systemInfoMap[container.sourceId] ]
      withKey == IF HasStats(statsMap, container.sourceLabel) THEN statsMap
                 ELSE Append(statsMap, fresh)
      i == CHOOSE k \in 1..Len(withKey) : withKey[k].sourceLabel = container.sourceLabel
      existing == withKey[i]
      isRunning == container.state = "running"
  IN [withKey EXCEPT ![i] =
       [existing EXCEPT
          !.total = @ + 1,
          !.running = IF isRunning THEN @ + 1 ELSE @,
          !.stopped = IF isRunning \/ isCrashed(container) THEN @ ELSE @ + 1,
          !.crashed = IF ~isRunning /\ isCrashed(container) THEN @ + 1 ELSE @,
          !.outdated = IF isOutdated(app, container) THEN @ + 1 ELSE @]]

\* One pass of the statistics loop body: serverStatsMap (a Map in insertion
\* order, keyed by sourceLabel) after counting one container of one app.
countInstance(statsMap, systemInfoMap, app, container) ==
  LET fresh == [ sourceId |-> container.sourceId,
                 sourceLabel |-> container.sourceLabel,
                 total |-> 0, running |-> 0, stopped |-> 0, crashed |-> 0, outdated |-> 0,
                 systemInfo |-> systemInfoMap[container.sourceId] ]
      withKey == IF HasStats(statsMap, container.sourceLabel) THEN statsMap
                 ELSE Append(statsMap, fresh)
      i == CHOOSE k \in 1..Len(withKey) : withKey[k].sourceLabel = container.sourceLabel
      existing == withKey[i]
      isRunning == container.state = "running"
  IN [withKey EXCEPT ![i] =
       [existing EXCEPT
          !.total = @ + 1,
          !.running = IF isRunning THEN @ + 1 ELSE @,
          !.stopped = IF isRunning THEN @ ELSE @ + 1,
          !.crashed = IF ~isRunning /\ isCrashed(container) THEN @ + 1 ELSE @,
          !.outdated = IF isOutdated(app, container) THEN @ + 1 ELSE @]]

RECURSIVE foldStats(_, _, _)
foldStats(statsMap, systemInfoMap, pairs) ==
  IF Len(pairs) = 0 THEN statsMap
  ELSE foldStats(countInstance(statsMap, systemInfoMap, Head(pairs).app, Head(pairs).container),
                 systemInfoMap, Tail(pairs))

\* The tail of getAggregatedApps once every app's metadata has settled:
\* entries is the sequence of finished AggregatedApps in workingApps order.
assembleResponse(entries, warningList, systemInfoMap) ==
  LET withSortedContainers ==
        [i \in 1..Len(entries) |->
           [entries[i] EXCEPT !.containers = StableSort(@, bySourceLabel(@))]]
      appList == StableSort(withSortedContainers, byDisplayName(withSortedContainers))
      pairs == instancePairs(appList)
      serverStatsMap == foldStats(<<>>, systemInfoMap, pairs)
      displayNames == Dedup([i \in 1..Len(appList) |-> appList[i].displayName])
      uniqueServers == Dedup([i \in 1..Len(pairs) |-> pairs[i].container.sourceLabel])
  IN [ apps |-> appList,
       appFilters |-> StableSort(displayNames, byCodeUnits(displayNames)),
       serverFilters |-> StableSort(uniqueServers, byCodeUnits(uniqueServers)),
       warnings |-> warningList,
       serverStats |-> StableSort(serverStatsMap, bySourceLabel(serverStatsMap)),
       totalContainers |-> Len(pairs) ]

(***************************************************************************)
(* Metadata Resolver (src/lib/server/metadata.ts): the tiers that need no  *)
(* network.                                                                *)
(***************************************************************************)
FirstNonNull(values) ==
  IF \E i \in 1..Len(values) : values[i] # NULL
  THEN values[CHOOSE i \in 1..Len(values) :
                values[i] # NULL /\ \A j \in 1..(i - 1) : values[j] = NULL]
  ELSE NULL

\* new URL(value) accepts the value and its protocol is http: or https:;
\* url.toString() lower-cases scheme and host and gives an empty path "/".
sanitizeUrl(value) ==
  IF Falsy(value) THEN NULL
  ELSE LET schemeEnd == IndexOf(value, "://")
           scheme == ToLower(Sub(value, 1, schemeEnd - 1))
           rest == Sub(value, schemeEnd + 3, Len(value))
           slash == IndexOf(rest, "/")
           host == IF slash = 0 THEN rest ELSE Sub(rest, 1, slash - 1)
           path == IF slash = 0 THEN "/" ELSE Sub(rest, slash, Len(rest))
       IN IF schemeEnd = 0 \/ scheme \notin {"http", "https"} \/ host = "" THEN NULL
          ELSE scheme \o "://" \o ToLower(host) \o path

DescriptionLimit == 600

sanitizeDescription(value) ==
  IF Falsy(value) THEN NULL ELSE Slice(Trim(value), DescriptionLimit)

\* resolveIcon up to the icon map: the sanitized label or hint URL, NULL when
\* the later tiers have to be asked.
labelIcon(entry) ==
  sanitizeUrl(FirstNonNull(<<entry.iconHint, entry.labels["homelab.icon"],
                             entry.labels["app.icon"], entry.labels["icon"]>>))

\* settings.iconMap, the operator's icon overrides: image or image base ->
\* URL.
VARIABLE iconMap

\* sanitizeUrl(settings.iconMap[key]): NULL when the map holds no valid URL
\* under the key.
mapUrl(key) == IF key \in DOMAIN iconMap THEN sanitizeUrl(iconMap[key]) ELSE NULL

\* The icon map tier with the match by base tried first.
mapIconBaseFirst(entry) ==
  IF mapUrl(getImageBase(parseImageReference(entry.app.image))) # NULL
  THEN mapUrl(getImageBase(parseImageReference(entry.app.image)))
  ELSE mapUrl(entry.app.image)

\* resolveIcon's icon map tier: the URL mapped to the image string, else the
\* one mapped to the image base, NULL when neither is a valid URL.
mapIcon(entry) ==
  IF mapUrl(entry.app.image) # NULL THEN mapUrl(entry.app.image)
  ELSE mapUrl(getImageBase(parseImageReference(entry.app.image)))

\* resolveDescription's label tier: the sanitized label text, NULL when the
\* providers have to be asked.
labelDescription(entry) ==
  LET text == FirstNonNull(<<entry.descriptionHint,
                             entry.labels["org.opencontainers.image.description"],
                             entry.labels["description"]>>)
  IN IF ~Falsy(text) THEN sanitizeDescription(text) ELSE NULL

(***************************************************************************)
(* Metadata Resolver: the outbound calls of resolveIcon and                *)
(* resolveDescription.  A call is [provider, key, url]: the provider asked *)
(* ("cdn", "repo", "product", "hub"), the key of the call's cache entry    *)
(* and what is requested.                                                  *)
(***************************************************************************)
EndsWith(s, suffix) ==
  Len(s) >= Len(suffix) /\ Sub(s, Len(s) - Len(suffix) + 1, Len(s)) = suffix

\* name.replace(/-ce$|-ee$|-agent$|-latest$|-docker$/, '')
CommonSuffixes == << "-ce", "-ee", "-agent", "-latest", "-docker" >>

stripCommonSuffix(name) ==
  IF \E i \in 1..Len(CommonSuffixes) : EndsWith(name, CommonSuffixes[i])
  THEN LET i == CHOOSE k \in 1..Len(CommonSuffixes) : EndsWith(name, CommonSuffixes[k])
       IN Sub(name, 1, Len(name) - Len(CommonSuffixes[i]))
  ELSE name

\* The characters of s that are (keep) or are not (~keep) in the alphabet.
RECURSIVE FilterChars(_, _, _)
FilterChars(s, alphabet, keep) ==
  IF Len(s) = 0 THEN ""
  ELSE (IF (IndexIn(CharAt(s, 1), alphabet) > 0) = keep THEN CharAt(s, 1) ELSE "")
       \o FilterChars(Sub(s, 2, Len(s)), alphabet, keep)

\* variations.push(value) unless value is the name itself or already there.
pushVariation(variations, value, lower) ==
  IF value # lower /\ value \notin SeqToSet(variations)
  THEN Append(variations, value) ELSE variations

\* The variations of a lower-cased name: the name, the name without
\* separators, without a common suffix, and its alphanumeric characters.
variationsOf(lower) ==
  Dedup(pushVariation(
          pushVariation(
            pushVariation(<<lower>>, FilterChars(lower, Separators, FALSE), lower),
            stripCommonSuffix(lower), lower),
          FilterChars(lower, LowerAlphanumerics, TRUE), lower))

getIconNameVariations(name) == variationsOf(ToLower(name))

\* The candidates by repository name, namespace and base name.
candidatesOf(repoName, namespace, baseName) ==
  Dedup(<<repoName>>
        \o (IF baseName # repoName THEN <<baseName>> ELSE <<>>)
        \o (IF /\ ~Falsy(namespace) /\ namespace # "library" /\ StartsWith(repoName, namespace)
               /\ namespace # repoName /\ namespace # baseName
            THEN <<namespace>> ELSE <<>>))

candidatesOfParts(parts) ==
  candidatesOf(parts[Len(parts)], IF Len(parts) > 1 THEN parts[1] ELSE NULL,
               stripCommonSuffix(parts[Len(parts)]))

getServiceNameCandidates(ref) == candidatesOfParts(Split(ref.repository, {"/"}))

slugOfParts(parts) ==
  IF Len(parts) = 1 \/ parts[1] = "library" THEN "/_/" \o parts[Len(parts)]
  ELSE IF Falsy(parts[1]) THEN NULL
  ELSE "/r/" \o parts[1] \o "/" \o Join(Tail(parts), "/")

deriveDockerHubSlug(ref) ==
  IF ~Falsy(ref.registry) /\ ref.registry # "index.docker.io" THEN NULL
  ELSE slugOfParts(Split(ref.repository, {"/"}))

RECURSIVE Flatten(_)
Flatten(qq) == IF Len(qq) = 0 THEN <<>> ELSE Head(qq) \o Flatten(Tail(qq))

variationsOfAll(candidates) ==
  Flatten([i \in 1..Len(candidates) |-> getIconNameVariations(candidates[i])])

\* The icon names tried, in order: every variation of every candidate.
iconNames(ref) == SelectSeqNonEmpty(variationsOfAll(getServiceNameCandidates(ref)))

SelfhstBase == "https://cdn.jsdelivr.net/gh/selfhst/icons@main/"
HypoLuxaBase == "https://cdn.jsdelivr.net/gh/HypoLuxa/dashboard-icons@main/svg/"

cdnCall(url) == [provider |-> "cdn", key |-> "cdn:" \o url, url |-> url]

\* fetchSelfhstIcon: for every name the SVG, then the PNG.
selfhstCalls(names) ==
  Flatten([i \in 1..Len(names) |->
    << cdnCall(SelfhstBase \o "svg/" \o names[i] \o ".svg"),
       cdnCall(SelfhstBase \o "png/" \o names[i] \o ".png") >>])

\* fetchHypoLuxaIcon: for every name the SVG.
hypoLuxaCalls(names) == [i \in 1..Len(names) |-> cdnCall(HypoLuxaBase \o names[i] \o ".svg")]

cdnCalls(names) == selfhstCalls(names) \o hypoLuxaCalls(names)

\* fetchRepositoryMetadata's cache key: namespace/repo of the last two
\* segments, "library" when there is one segment.
repoCacheKey(segments) ==
  (IF Len(segments) > 1 THEN segments[Len(segments) - 1] ELSE "library")
  \o "/" \o segments[Len(segments)]

repoCall(cacheKey) ==
  [ provider |-> "repo", key |-> cacheKey,
    url |-> "https://hub.docker.com/v2/repositories/" \o cacheKey \o "/" ]

productCall(repository) ==
  [ provider |-> "product", key |-> "product:" \o repository,
    url |-> "https://hub.docker.com/api/content/v1/products/search" ]

\* fetchDockerHubMetadata makes no request when the image has no hub slug.
hubPageCalls(slug) ==
  IF slug = NULL THEN <<>>
  ELSE << [provider |-> "hub", key |-> slug, url |-> "https://hub.docker.com" \o slug] >>

\* fetchRepositoryMetadata, fetchProductMetadata, fetchDockerHubMetadata.
hubCalls(ref) ==
  << repoCall(repoCacheKey(Split(ref.repository, {"/"}))), productCall(ref.repository) >>
  \o hubPageCalls(deriveDockerHubSlug(ref))

\* The calls with the registry hub asked in front of the icon libraries.
iconCallsHubFirst(ref) == hubCalls(ref) \o cdnCalls(iconNames(ref))

iconCalls(ref) == cdnCalls(iconNames(ref)) \o hubCalls(ref)

\* The calls resolveIcon makes, in order, when no tier before answers.
iconPlan(entry) == iconCalls(parseImageReference(entry.app.image))

\* The calls resolveDescription makes, in order.
descriptionPlan(entry) == hubCalls(parseImageReference(entry.app.image))

\* Time-to-live of the metadata caches and the deadline of a CDN probe, in
\* seconds.
cdnProbeTimeout == 3
iconTtl == 604800
descriptionTtl == 86400
cdnIconTtlCap == 86400
cdnFailureTtl == 3600
NoDeadline == -1

Min2(x, y) == IF x < y THEN x ELSE y

\* A Map keyed by strings: a function from the keys present.
CachePut(cache, key, entry) ==
  [k \in (DOMAIN cache) \cup {key} |-> IF k = key THEN entry ELSE cache[k]]

CacheDelete(cache, key) == [k \in (DOMAIN cache) \ {key} |-> cache[k]]

\* A provider's result: HubMetadata, or a CDN probe's URL as its icon.
NoMeta == [icon |-> NULL, description |-> NULL]

\* What the providers serve when they have the image.
RepoPayload == [logo_url |-> "https://hub.test/repo.png", short_description |-> " Repository text "]
ProductPayload == [logo_url |-> "https://hub.test/product.png", short_description |-> "Product text"]
HubPage == [image |-> "HTTPS://Hub.test/page.png", description |-> "Page text"]

\* The cache check in front of a call: [hit, meta, caches].  checkIconExists
\* deletes an expired entry; the other caches leave it.
lookupCache(caches, call, t) ==
  LET cache == caches[call.provider]
      present == call.key \in DOMAIN cache
  IN IF present /\ cache[call.key].expires > t
     THEN [ hit |-> TRUE, caches |-> caches,
            meta |-> IF call.provider = "cdn"
                     THEN [icon |-> cache[call.key].value, description |-> NULL]
                     ELSE cache[call.key].value ]
     ELSE [ hit |-> FALSE, meta |-> NoMeta,
            caches |-> IF present /\ call.provider = "cdn"
                       THEN [caches EXCEPT !.cdn = CacheDelete(@, call.key)]
                       ELSE caches ]

\* The result of a call by its outcome: "found", "missing" (a 404 or no
\* match), "aborted" (the probe's signal fired) or "failed" (fetch threw).
callResult(call, outcome) ==
  IF outcome # "found" THEN NoMeta
  ELSE CASE call.provider = "cdn" -> [icon |-> call.url, description |-> NULL]
         [] call.provider = "repo" ->
              [ icon |-> sanitizeUrl(RepoPayload.logo_url),
                description |-> sanitizeDescription(RepoPayload.short_description) ]
         [] call.provider = "product" ->
              [ icon |-> sanitizeUrl(ProductPayload.logo_url),
                description |-> sanitizeDescription(ProductPayload.short_description) ]
         [] call.provider = "hub" ->
              [ icon |-> sanitizeUrl(HubPage.image),
                description |-> sanitizeDescription(HubPage.description) ]

\* The cache write that follows a call.
writeCache(caches, call, outcome, t) ==
  CASE call.provider = "cdn" ->
         [caches EXCEPT !.cdn = CachePut(@, call.key,
            IF outcome \in {"aborted", "failed"}
            THEN [value |-> NULL, expires |-> t + cdnFailureTtl]
            ELSE [ value |-> callResult(call, outcome).icon,
                   expires |-> t + Min2(iconTtl, cdnIconTtlCap) ])]
    [] call.provider \in {"repo", "product"} /\ outcome = "found" ->
         [caches EXCEPT ![call.provider] =
            CachePut(@, call.key, [ value |-> callResult(call, outcome),
                              expires |-> t + iconTtl ])]
    [] call.provider = "hub" /\ outcome = "found" ->
         [caches EXCEPT !.hub =
            CachePut(@, call.key,
                     [ value |-> callResult(call, outcome),
                       expires |-> t + Max2(descriptionTtl, iconTtl) ])]
    [] OTHER -> caches

\* Position of one app's metadata resolution: the phase, the calls the phase
\* has left to make (the first of them is the one in flight when pending),
\* and the deadline the call in flight carries.
MetaDone == [phase |-> "done", calls |-> <<>>, pending |-> FALSE, deadline |-> NoDeadline]

MetaAt(phase, calls) ==
  [phase |-> phase, calls |-> calls, pending |-> FALSE, deadline |-> NoDeadline]

fieldOf(meta, phase) == IF phase = "icon" THEN meta.icon ELSE meta.description

\* The resolution of one app runs until it has to wait for a provider:
\* advance walks the calls of the phase over cache hits, resume continues
\* behind a call's result, settle records a phase's result and enters the
\* next phase.  All give [entry, pc, caches].
RECURSIVE advance(_, _, _, _)
RECURSIVE resume(_, _, _, _, _)
RECURSIVE settle(_, _, _, _, _)
advance(entry, pc, caches, t) ==
  IF Len(pc.calls) = 0 THEN settle(entry, pc, NULL, caches, t)
  ELSE LET look == lookupCache(caches, Head(pc.calls), t)
       IN IF look.hit
          THEN resume(entry, pc, fieldOf(look.meta, pc.phase), look.caches, t)
          ELSE [ entry |-> entry, caches |-> look.caches,
                 pc |-> [ phase |-> pc.phase, calls |-> pc.calls, pending |-> TRUE,
                          deadline |-> IF Head(pc.calls).provider = "cdn"
                                       THEN t + cdnProbeTimeout ELSE NoDeadline ] ]

resume(entry, pc, value, caches, t) ==
  IF ~Falsy(value) THEN settle(entry, pc, value, caches, t)
  ELSE advance(entry, MetaAt(pc.phase, Tail(pc.calls)), caches, t)

settle(entry, pc, value, caches, t) ==
  IF pc.phase = "icon"
  THEN IF entry.descriptionHint # NULL
       THEN settle([entry EXCEPT !.app.icon = value], MetaAt("description", <<>>),
                   entry.descriptionHint, caches, t)
       ELSE IF labelDescription(entry) # NULL
       THEN settle([entry EXCEPT !.app.icon = value], MetaAt("description", <<>>),
                   labelDescription(entry), caches, t)
       ELSE advance([entry EXCEPT !.app.icon = value],
                    MetaAt("description", descriptionPlan(entry)), caches, t)
  ELSE [ entry |-> [entry EXCEPT !.app.description = value], pc |-> MetaDone,
         caches |-> caches ]

\* resolveIcon from its start.
startMetadata(entry, caches, t) ==
  IF labelIcon(entry) # NULL
  THEN settle(entry, MetaAt("icon", <<>>), labelIcon(entry), caches, t)
  ELSE IF mapIcon(entry) # NULL
  THEN settle(entry, MetaAt("icon", <<>>), mapIcon(entry), caches, t)
  ELSE advance(entry, MetaAt("icon", iconPlan(entry)), caches, t)

\* The continuation of a call that has ended with the outcome.
afterCall(entry, pc, caches, t, outcome) ==
  resume(entry, pc, fieldOf(callResult(Head(pc.calls), outcome), pc.phase),
         writeCache(caches, Head(pc.calls), outcome, t), t)

\* entries.map(async ...): every app's resolution is started in turn; the
\* apps started, their positions and the caches are [entries, pcs, caches].
started(acc, r) ==
  [ entries |-> Append(acc.entries, r.entry), pcs |-> Append(acc.pcs, r.pc),
    caches |-> r.caches ]

RECURSIVE startAll(_, _, _)
startAll(entries, acc, t) ==
  IF Len(entries) = 0 THEN acc
  ELSE startAll(Tail(entries), started(acc, startMetadata(Head(entries), acc.caches, t)), t)

(***************************************************************************)
(* Version resolution from image digests (metadata.ts,                     *)
(* resolveVersionFromDigest) and the deferred backfill (GET /api/versions).*)
(***************************************************************************)
\* Time-to-live of a tagCache entry, in seconds: 365 * 24 * 60 * 60.
TagTtl == 31536000

\* The dispatch with every registry other than the default one handed to the
\* second resolver.
registryOrGhcr(ref) ==
  IF Falsy(ref.registry) THEN "hub"
  ELSE IF Trim(ToLower(ref.registry)) \in {"docker.io", "index.docker.io"} THEN "hub"
  ELSE "ghcr"

\* The registry resolveVersionFromDigest queries for the image: "hub",
\* "ghcr", or NULL for a registry it does not support.
registryOf(ref) ==
  IF Falsy(ref.registry) THEN "hub"
  ELSE IF Trim(ToLower(ref.registry)) \in {"docker.io", "index.docker.io"} THEN "hub"
  ELSE IF Trim(ToLower(ref.registry)) = "ghcr.io" THEN "ghcr"
  ELSE NULL

\* resolveVersionFromDigestGHCR: owner/imageName of the repository segments.
ghcrImage(segments) ==
  segments[1] \o "/" \o
  (IF Len(segments) > 2 THEN Join(Tail(segments), "/")
   ELSE IF Len(segments) > 1 THEN segments[2] ELSE segments[1])

\* The key of the call's tagCache entry.
tagCacheKey(ref, digest) ==
  IF registryOf(ref) = "hub"
  THEN "tag:" \o repoCacheKey(Split(ref.repository, {"/"})) \o ":" \o digest
  ELSE "tag:ghcr.io/" \o ghcrImage(Split(ref.repository, {"/"})) \o ":" \o digest

\* One call of resolveVersionFromDigest: the registry and cache key, the
\* container the backfill resolves it for (NULL for another caller), whether
\* it is pending or has returned, whether it issued a registry request and
\* wrote the cache, its result, when it started and ended, and the expiry of
\* the cache entry it read or wrote.
Resolution(registry, key, containerKey, t) ==
  [ registry |-> registry, key |-> key, containerKey |-> containerKey, state |-> "pending",
    requested |-> TRUE, wrote |-> FALSE, result |-> NULL, startedAt |-> t, endedAt |-> t,
    validUntil |-> 0, peers |-> {}, error |-> FALSE ]

\* The cache check with the comparison of the expiry reversed.
lookupTagReversed(cache, key, t) == key \in DOMAIN cache /\ cache[key].expires < t

\* The cache check in front of the registry request.
lookupTag(cache, key, t) == key \in DOMAIN cache /\ cache[key].expires > t

\* The call up to its first await: an unsupported registry returns null, a
\* cache hit returns the cached tag, otherwise the request is sent.
startKeyed(registry, key, containerKey, cache, t) ==
  IF registry = NULL
  THEN [Resolution(NULL, NULL, containerKey, t) EXCEPT !.state = "returned",
                                                       !.requested = FALSE]
  ELSE IF lookupTag(cache, key, t)
  THEN [Resolution(registry, key, containerKey, t) EXCEPT
          !.state = "returned", !.requested = FALSE, !.result = cache[key].value,
          !.validUntil = cache[key].expires]
  ELSE Resolution(registry, key, containerKey, t)

startResolution(ref, digest, containerKey, cache, t) ==
  startKeyed(registryOf(ref), tagCacheKey(ref, digest), containerKey, cache, t)

\* The registry has answered and the tag names matching the digest have
\* been reduced to foundTag (NULL when none matches): the result is cached.
resolved(r, foundTag, t) ==
  [r EXCEPT !.state = "returned", !.wrote = TRUE, !.result = foundTag, !.endedAt = t,
            !.validUntil = t + TagTtl]

\* The request failed: the catch returns null and nothing is cached.
failed(r, t) == [r EXCEPT !.state = "returned", !.endedAt = t, !.error = TRUE]

\* resolveVersionFromDigestGHCR: the tag list is answered 404 or holds no
\* tag, and null is returned in front of the cache write.
unlisted(r, t) == [r EXCEPT !.state = "returned", !.endedAt = t]

\* GET /api/versions: /^\d{2}\.\d{2}$/
isDateVersion(value) ==
  /\ Len(value) = 5 /\ CharAt(value, 3) = "."
  /\ \A i \in {1, 2, 4, 5} : IsDigitChar(CharAt(value, i))

isNonSemantic(currentVersion) ==
  \/ Falsy(currentVersion)
  \/ currentVersion \in {"latest", "nightly", "main"}
  \/ isDigest(currentVersion)
  \/ isDateVersion(currentVersion)
  \/ ~isSemanticVersion(currentVersion)

\* The choice without the test for a digest.
needsResolutionAnyDigest(item) == isNonSemantic(item.version)

\* The containers of the payload whose version the backfill resolves.
needsResolution(item) == ~Falsy(item.imageDigest) /\ isNonSemantic(item.version)

\* versionMap[containerKey] = resolvedVersion, when the call was started by
\* the backfill and resolved to a tag.
thenRecord(map, r) ==
  IF r.containerKey # NULL /\ ~Falsy(r.result) THEN CachePut(map, r.containerKey, r.result)
  ELSE map

\* The for loops of GET: every resolution is started, in payload order; a
\* call that returns at once has its result recorded.  [calls, map].
startedCall(acc, r) ==
  [ calls |-> Append(acc.calls, r),
    map |-> IF r.state = "returned" THEN thenRecord(acc.map, r) ELSE acc.map ]

RECURSIVE startBackfill(_, _, _, _)
startBackfill(items, acc, cache, t) ==
  IF Len(items) = 0 THEN acc
  ELSE startBackfill(Tail(items),
         IF needsResolution(Head(items))
         THEN startedCall(acc, startResolution(parseImageReference(Head(items).image),
                                               Head(items).imageDigest,
                                               Head(items).containerKey, cache, t))
         ELSE acc,
         cache, t)

\* const CONCURRENCY_LIMIT = 10, and the timeout of one batch in seconds.
CONCURRENCY_LIMIT == 10

batchTimeout == 20

(***************************************************************************)
(* State.                                                                  *)
(***************************************************************************)
VARIABLES
  now,             \* the clock, in seconds
  cmpA, cmpB, cmpC, cmpPc, cmpAB, cmpBA, cmpBC, cmpAC, cmpAA,
                   \* comparator harness: drawn versions and results
  sources,         \* settings.dockerSources: sequence of [name, displayName, timeoutMs]
  hostContainers,  \* per source name: the containers its runtime would list
  hostMode,        \* per source name: how its runtime answers (HostModes)
  providerMode,    \* per metadata provider: how it answers (ProviderModes)
  aggPc,           \* position of getAggregatedApps
  fetchState,      \* per source index: state of the listContainers call
  fetchDeadline,   \* per source index: when the withTimeout timer fires
  containerMatrix, \* per source index: the containers collected
  warnings,        \* AppsResponse.warnings under construction
  infoState,       \* per source index: state of fetchSystemInfoForSource
  infoDeadline,    \* per source index: deadline of the pending info/df call
  systemInfoMap,   \* per source name: the system info obtained
  workingApps,     \* the Map workingApps, in insertion order
  response,        \* the AppsResponse returned
  collectStart,    \* listContainers' startTime: when the calls were started
  fetchDuration,   \* per source index: listContainers' duration of the settled call
  metaPc,          \* per app of workingApps: position of its metadata resolution
  callErrors,      \* the apps (positions in workingApps) a provider call of which has failed
  cdnIconCache, repoCache, productCache, hubCache,
                   \* the metadata caches: key -> [value, expires]
  tagCache,        \* the tag cache: key -> [value, expires]
  resolutions,     \* the calls of resolveVersionFromDigest, in the order started
  clearedAt,       \* the times at which clearVersionCache has run
  registryMode,    \* per registry: how it answers ("up", "slow", "down", "hang")
  payloadItems,    \* GET /api/versions: the containers of the payload
  backfillPc,      \* GET /api/versions: position of the handler
  batchFrom,       \* first promise of the batch awaited
  batchDeadline,   \* when the timer of the batch awaited fires
  versionMap,      \* GET /api/versions: containerKey -> resolved version
  versionsResponse,\* the versions of the response of GET /api/versions
  registryListing, \* tag-choice harness: what the registry holds for the repository
  listedDigest,    \* tag-choice harness: the digest asked for
  listPc,          \* tag-choice harness: position
  listResult,      \* tag-choice harness: what the resolver returned and requested
  clients,         \* docker-client's Map clients: source name -> Docker client
  created,         \* the number of Docker clients constructed so far
  handed           \* the calls of getDockerClient made so far and what each returned

listVars == <<registryListing, listedDigest, listPc, listResult>>

poolVars == <<clients, created, handed>>

cmpVars == <<cmpA, cmpB, cmpC, cmpPc, cmpAB, cmpBA, cmpBC, cmpAC, cmpAA, listVars, poolVars>>

worldVars == <<sources, hostContainers, hostMode, providerMode, iconMap>>

cacheVars == <<cdnIconCache, repoCache, productCache, hubCache>>

metaVars == <<metaPc, callErrors, cacheVars>>

aggVars == <<aggPc, fetchState, fetchDeadline, containerMatrix, warnings, infoState,
             infoDeadline, systemInfoMap, workingApps, response, collectStart,
             fetchDuration>>

backfillVars ==
  <<payloadItems, backfillPc, batchFrom, batchDeadline, versionMap, versionsResponse>>

versionVars == <<tagCache, resolutions, clearedAt, registryMode, backfillVars>>

vars == <<now, cmpVars, worldVars, aggVars, metaVars, versionVars>>

(***************************************************************************)
(* Comparator harness: the comparator applied to drawn version strings.    *)
(***************************************************************************)
VersionUniverse ==
  { NULL, "", " ", "latest", "Latest", " LATEST", "9", "10", "5a", "1.2", "1.2.3",
    "1.2.10", "v2.0", "V2.0.1", "1.9.9", "1.0", "1.0.0", "1.0-rc1", "1.0 ", "1_0",
    "nightly", "abcdef012345", "0123456789ab" }

ListIdle ==
  /\ registryListing = NULL /\ listedDigest = NULL
  /\ listPc = "off" /\ listResult = NULL

\* The module docker-client as loaded: an empty Map of clients.
PoolIdle == clients = <<>> /\ created = 0 /\ handed = <<>>

CmpOff ==
  /\ PoolIdle
  /\ cmpA = NULL /\ cmpB = NULL /\ cmpC = NULL
  /\ cmpPc = "off"
  /\ cmpAB = 0 /\ cmpBA = 0 /\ cmpBC = 0 /\ cmpAC = 0 /\ cmpAA = 0

CmpIdle == CmpOff /\ ListIdle

CmpInit ==
  /\ cmpA \in VersionUniverse
  /\ cmpB \in VersionUniverse
  /\ cmpC \in VersionUniverse
  /\ cmpPc = "ready"
  /\ cmpAB = 0 /\ cmpBA = 0 /\ cmpBC = 0 /\ cmpAC = 0 /\ cmpAA = 0
  /\ ListIdle /\ PoolIdle

CompareAll ==
  /\ cmpPc = "ready"
  /\ cmpAB' = compareVersions(cmpA, cmpB)
  /\ cmpBA' = compareVersions(cmpB, cmpA)
  /\ cmpBC' = compareVersions(cmpB, cmpC)
  /\ cmpAC' = compareVersions(cmpA, cmpC)
  /\ cmpAA' = compareVersions(cmpA, cmpA)
  /\ cmpPc' = "compared"
  /\ UNCHANGED <<cmpA, cmpB, cmpC, listVars, poolVars, now, worldVars, aggVars, metaVars, versionVars>>

(***************************************************************************)
(* Configuration and the container runtimes.                               *)
(***************************************************************************)
\* settings.dockerApiTimeoutMs (default 10 s), in seconds.
dockerApiTimeout == 10

\* A source without timeoutMs.
NoOverride == -1

\* listContainers: source.timeoutMs ?? timeoutMs
effectiveTimeout(source) ==
  IF source.timeoutMs = NoOverride THEN dockerApiTimeout ELSE source.timeoutMs

\* How a runtime answers during one aggregation: "up" answers every call,
\* "refused" and "dns" fail every call with that transport error, "hang"
\* accepts every call and never answers, "listonly" answers the container
\* list and fails the info call.
HostModes == {"up", "refused", "dns", "hang", "listonly"}

\* The registries resolveVersionFromDigest queries.
Registries == {"hub", "ghcr"}

\* No version resolution is running and the tag cache is empty.
VersionsIdle ==
  /\ tagCache = <<>> /\ resolutions = <<>> /\ clearedAt = {}
  /\ registryMode = [g \in Registries |-> "up"]
  /\ payloadItems = <<>> /\ backfillPc = "idle" /\ batchFrom = 0 /\ batchDeadline = 0
  /\ versionMap = <<>> /\ versionsResponse = <<>>

\* The metadata providers and how one answers during an aggregation:
\* "found" serves the image's data, "missing" answers that it has none,
\* "hang" accepts every request and never answers.
Providers == {"cdn", "repo", "product", "hub"}

ProviderModes == {"found", "missing", "hang"}

\* No provider has data.
NoProviders == [q \in Providers |-> "missing"]

SourceCount == Len(sources)

SourceIdx == 1..SourceCount

Settled(st) == st \in {"ok", "failed"}

\* The message of the error listContainers throws (userFriendlyMessage), by
\* failure class.
failureMessage(class) ==
  CASE class = "ECONNREFUSED" -> "Connection refused"
    [] class = "ENOTFOUND" -> "DNS resolution failed"
    [] class = "timeout" -> "Request timed out"
    [] OTHER -> "Unknown error"

AggIdle ==
  /\ aggPc = "idle"
  /\ fetchState = [i \in SourceIdx |-> "idle"]
  /\ fetchDeadline = [i \in SourceIdx |-> 0]
  /\ containerMatrix = [i \in SourceIdx |-> <<>>]
  /\ warnings = <<>>
  /\ infoState = [i \in SourceIdx |-> "idle"]
  /\ infoDeadline = [i \in SourceIdx |-> 0]
  /\ systemInfoMap = [n \in {sources[i].name : i \in SourceIdx} |-> "none"]
  /\ workingApps = <<>>
  /\ response = [ apps |-> <<>>, appFilters |-> <<>>, serverFilters |-> <<>>,
                  warnings |-> <<>>, serverStats |-> <<>>, totalContainers |-> 0 ]
  /\ collectStart = 0
  /\ fetchDuration = [i \in SourceIdx |-> 0]
  /\ metaPc = <<>> /\ callErrors = {}
  /\ cdnIconCache = <<>> /\ repoCache = <<>> /\ productCache = <<>> /\ hubCache = <<>>

(***************************************************************************)
(* getAggregatedApps.                                                      *)
(***************************************************************************)
\* StartAggregation with the sources polled one after the other: a source's
\* timer starts when the timer of the source before it has run out.
RECURSIVE timeoutSum(_)
timeoutSum(i) == IF i = 0 THEN 0 ELSE timeoutSum(i - 1) + effectiveTimeout(sources[i])

StartAggregationInTurn ==
  /\ aggPc = "idle"
  /\ aggPc' = "collect"
  /\ fetchState' = [i \in SourceIdx |-> "pending"]
  /\ fetchDeadline' = [i \in SourceIdx |-> now + timeoutSum(i)]
  /\ collectStart' = now
  /\ UNCHANGED <<now, cmpVars, worldVars, versionVars, metaVars, containerMatrix, warnings, infoState,
                 infoDeadline, systemInfoMap, workingApps, response, fetchDuration>>

\* The call: every source's listContainers is started at once, each under
\* its own withTimeout timer.
StartAggregation ==
  /\ aggPc = "idle"
  /\ aggPc' = "collect"
  /\ fetchState' = [i \in SourceIdx |-> "pending"]
  /\ fetchDeadline' = [i \in SourceIdx |-> now + effectiveTimeout(sources[i])]
  /\ collectStart' = now
  /\ UNCHANGED <<now, cmpVars, worldVars, versionVars, metaVars, containerMatrix, warnings, infoState,
                 infoDeadline, systemInfoMap, workingApps, response, fetchDuration>>

\* Continuation of the first Promise.all: once every listContainers call
\* has settled, the system-info calls of all sources are started.
AfterFetch(newFetchState) ==
  IF \A j \in SourceIdx : Settled(newFetchState[j])
  THEN /\ aggPc' = "info"
       /\ infoState' = [j \in SourceIdx |-> "info"]
       /\ infoDeadline' = [j \in SourceIdx |-> now + dockerApiTimeout]
  ELSE UNCHANGED <<aggPc, infoState, infoDeadline>>

\* HostReturns with the lists kept in the order the answers arrive, not in
\* the order the sources are configured.
HostReturnsInArrivalOrder(i) ==
  /\ aggPc = "collect" /\ fetchState[i] = "pending"
  /\ hostMode[sources[i].name] \in {"up", "listonly"}
  /\ fetchState' = [fetchState EXCEPT ![i] = "ok"]
  /\ containerMatrix' =
       [containerMatrix EXCEPT
          ![1 + Cardinality({ j \in SourceIdx : Settled(fetchState[j]) })] =
             hostContainers[sources[i].name]]
  /\ fetchDuration' = [fetchDuration EXCEPT ![i] = now - collectStart]
  /\ AfterFetch(fetchState')
  /\ UNCHANGED <<now, cmpVars, worldVars, versionVars, metaVars, fetchDeadline, warnings, systemInfoMap,
                 workingApps, response, collectStart>>

\* docker.listContainers answers before the timer fires.
HostReturns(i) ==
  /\ aggPc = "collect" /\ fetchState[i] = "pending"
  /\ hostMode[sources[i].name] \in {"up", "listonly"}
  /\ fetchState' = [fetchState EXCEPT ![i] = "ok"]
  /\ containerMatrix' = [containerMatrix EXCEPT ![i] = hostContainers[sources[i].name]]
  /\ fetchDuration' = [fetchDuration EXCEPT ![i] = now - collectStart]
  /\ AfterFetch(fetchState')
  /\ UNCHANGED <<now, cmpVars, worldVars, versionVars, metaVars, fetchDeadline, warnings, systemInfoMap,
                 workingApps, response, collectStart>>

\* HostFails with a catch that swallows the error without a warning.
HostFailsSilently(i) ==
  /\ aggPc = "collect" /\ fetchState[i] = "pending"
  /\ hostMode[sources[i].name] \in {"refused", "dns"}
  /\ fetchState' = [fetchState EXCEPT ![i] = "failed"]
  /\ fetchDuration' = [fetchDuration EXCEPT ![i] = now - collectStart]
  /\ AfterFetch(fetchState')
  /\ UNCHANGED <<now, cmpVars, worldVars, versionVars, metaVars, fetchDeadline, containerMatrix, warnings,
                 systemInfoMap, workingApps, response, collectStart>>

\* docker.listContainers fails with a transport error; the catch of the
\* source's callback records one warning.
HostFails(i) ==
  /\ aggPc = "collect" /\ fetchState[i] = "pending"
  /\ hostMode[sources[i].name] \in {"refused", "dns"}
  /\ fetchState' = [fetchState EXCEPT ![i] = "failed"]
  /\ warnings' = Append(warnings,
       [ source |-> sources[i].name,
         message |-> failureMessage(IF hostMode[sources[i].name] = "refused"
                                    THEN "ECONNREFUSED" ELSE "ENOTFOUND") ])
  /\ fetchDuration' = [fetchDuration EXCEPT ![i] = now - collectStart]
  /\ AfterFetch(fetchState')
  /\ UNCHANGED <<now, cmpVars, worldVars, versionVars, metaVars, fetchDeadline, containerMatrix, systemInfoMap,
                 workingApps, response, collectStart>>

\* The withTimeout timer of the source's listContainers call fires first.
HostTimeout(i) ==
  /\ aggPc = "collect" /\ fetchState[i] = "pending"
  /\ now >= fetchDeadline[i]
  /\ fetchState' = [fetchState EXCEPT ![i] = "failed"]
  /\ warnings' = Append(warnings,
       [source |-> sources[i].name, message |-> failureMessage("timeout")])
  /\ fetchDuration' = [fetchDuration EXCEPT ![i] = now - collectStart]
  /\ AfterFetch(fetchState')
  /\ UNCHANGED <<now, cmpVars, worldVars, versionVars, metaVars, fetchDeadline, containerMatrix, systemInfoMap,
                 workingApps, response, collectStart>>

\* entries.map(async ...) up to the first await: the version set of every
\* app is sorted with the comparator and latestVersion is its last element.
\* The result is the set of outcomes the sorts may have.
withLatest(entry, sortedVersions) ==
  [entry EXCEPT !.app.versions = sortedVersions,
                !.app.latestVersion = IF Len(sortedVersions) = 0 THEN NULL
                                      ELSE sortedVersions[Len(sortedVersions)]]

RECURSIVE sortVersionSets(_)
sortVersionSets(map) ==
  IF Len(map) = 0 THEN { <<>> }
  ELSE { <<withLatest(Head(map), v)>> \o rest :
           v \in SortOutcomes(Head(map).app.versions, byVersion(Head(map).app.versions)),
           rest \in sortVersionSets(Tail(map)) }

\* The metadata caches as one record, by provider.
Caches ==
  [cdn |-> cdnIconCache, repo |-> repoCache, product |-> productCache, hub |-> hubCache]

SetCaches(caches) ==
  /\ cdnIconCache' = caches.cdn
  /\ repoCache' = caches.repo
  /\ productCache' = caches.product
  /\ hubCache' = caches.hub

\* getAggregatedApps resumes behind the second Promise.all: grouping, version
\* sort, and the start of every app's metadata resolution, each of which
\* runs up to its first outbound call.
AfterInfo ==
  /\ aggPc = "info"
  /\ \A j \in SourceIdx : infoState[j] = "done"
  /\ \E sorted \in sortVersionSets(groupContainers(<<>>,
                      [j \in SourceIdx |-> [source |-> sources[j],
                                            containers |-> containerMatrix[j]]])) :
        \E all \in { startAll(sorted, [entries |-> <<>>, pcs |-> <<>>, caches |-> Caches],
                              now) } :
          /\ workingApps' = all.entries
          /\ metaPc' = all.pcs
          /\ callErrors' = {}
          /\ SetCaches(all.caches)
  /\ aggPc' = "metadata"
  /\ UNCHANGED <<now, cmpVars, worldVars, versionVars, fetchState, fetchDeadline, containerMatrix,
                 warnings, infoState, infoDeadline, systemInfoMap, response, collectStart,
                 fetchDuration>>

\* getAggregatedApps resumes behind the third Promise.all, when every app's
\* icon and description have settled: the response is assembled and returned.
Respond ==
  /\ aggPc = "metadata"
  /\ \A k \in 1..Len(metaPc) : metaPc[k].phase = "done"
  /\ response' = assembleResponse([k \in 1..Len(workingApps) |-> workingApps[k].app],
                                  warnings, systemInfoMap)
  /\ aggPc' = "done"
  /\ UNCHANGED <<now, cmpVars, worldVars, versionVars, fetchState, fetchDeadline, containerMatrix,
                 warnings, infoState, infoDeadline, systemInfoMap, workingApps,
                 collectStart, fetchDuration, metaVars>>

\* docker.info() answers: the storage call (df) is started under its own timer.
InfoReturns(i) ==
  /\ aggPc = "info" /\ infoState[i] = "info"
  /\ hostMode[sources[i].name] = "up"
  /\ infoState' = [infoState EXCEPT ![i] = "df"]
  /\ infoDeadline' = [infoDeadline EXCEPT ![i] = now + dockerApiTimeout]
  /\ UNCHANGED <<now, cmpVars, worldVars, versionVars, metaVars, aggPc, fetchState, fetchDeadline, containerMatrix,
                 warnings, systemInfoMap, workingApps, response, collectStart,
                 fetchDuration>>

\* docker.info() fails: fetchSystemInfoForSource catches and returns no info.
InfoFails(i) ==
  /\ aggPc = "info" /\ infoState[i] = "info"
  /\ hostMode[sources[i].name] \in {"refused", "dns", "listonly"}
  /\ infoState' = [infoState EXCEPT ![i] = "done"]
  /\ UNCHANGED <<now, cmpVars, worldVars, versionVars, aggPc, fetchState, fetchDeadline, containerMatrix,
                 warnings, infoDeadline, systemInfoMap, workingApps, response,
                 collectStart, fetchDuration, metaVars>>

\* The withTimeout timer of docker.info() fires first.
InfoTimeout(i) ==
  /\ aggPc = "info" /\ infoState[i] = "info"
  /\ now >= infoDeadline[i]
  /\ infoState' = [infoState EXCEPT ![i] = "done"]
  /\ UNCHANGED <<now, cmpVars, worldVars, versionVars, aggPc, fetchState, fetchDeadline, containerMatrix,
                 warnings, infoDeadline, systemInfoMap, workingApps, response,
                 collectStart, fetchDuration, metaVars>>

\* The storage call answers: the source's system info is complete.
DfReturns(i) ==
  /\ aggPc = "info" /\ infoState[i] = "df"
  /\ hostMode[sources[i].name] = "up"
  /\ infoState' = [infoState EXCEPT ![i] = "done"]
  /\ systemInfoMap' = [systemInfoMap EXCEPT ![sources[i].name] = "full"]
  /\ UNCHANGED <<now, cmpVars, worldVars, versionVars, aggPc, fetchState, fetchDeadline, containerMatrix,
                 warnings, infoDeadline, workingApps, response, collectStart,
                 fetchDuration, metaVars>>

MetaIdx == 1..Len(metaPc)

PendingCall(k) == Head(metaPc[k].calls)

\* App k's resolution has run from its pending call to the next one (r).
Resumed(k, r) ==
  /\ workingApps' = [workingApps EXCEPT ![k] = r.entry]
  /\ metaPc' = [metaPc EXCEPT ![k] = r.pc]
  /\ SetCaches(r.caches)
  /\ UNCHANGED <<now, cmpVars, worldVars, versionVars, aggPc, fetchState, fetchDeadline, containerMatrix,
                 warnings, infoState, infoDeadline, systemInfoMap, response, collectStart,
                 fetchDuration>>

\* The continuation of app k's pending call, ended with the outcome.
ContinueApp(k, outcome) ==
  /\ Resumed(k, afterCall(workingApps[k], metaPc[k], Caches, now, outcome))
  /\ callErrors' = IF outcome \in {"aborted", "failed"} THEN callErrors \cup {k}
                   ELSE callErrors

\* The icons the CDN libraries hold, "widget" in the second library alone: a
\* probe of another name is answered 404.
CdnIconNames == {"nginx", "portainer", "tool", "redis", "traefik"}

CdnServed ==
  UNION { { SelfhstBase \o "svg/" \o name \o ".svg", SelfhstBase \o "png/" \o name \o ".png",
            HypoLuxaBase \o name \o ".svg" } : name \in CdnIconNames }
  \cup { HypoLuxaBase \o "widget.svg" }

\* The answer of a provider that answers: a CDN that has icons serves those
\* it holds.
answerOf(call, mode) ==
  IF call.provider = "cdn" /\ mode = "found" /\ call.url \notin CdnServed THEN "missing"
  ELSE mode

\* A provider answers the pending call of app k.
ProviderAnswers(k) ==
  /\ aggPc = "metadata" /\ metaPc[k].pending
  /\ providerMode[PendingCall(k).provider] \in {"found", "missing"}
  /\ ContinueApp(k, answerOf(PendingCall(k), providerMode[PendingCall(k).provider]))

\* One call that would have brought a value fails although its provider is up
\* (connection reset, body that does not parse): fetch or the parser throws
\* and the fetcher's catch returns null.  At most MaxCallErrors apps are hit
\* during an aggregation.
MaxCallErrors == 1

ProviderErrors(k) ==
  /\ aggPc = "metadata" /\ metaPc[k].pending
  /\ answerOf(PendingCall(k), providerMode[PendingCall(k).provider]) = "found"
  /\ Cardinality(callErrors \cup {k}) <= MaxCallErrors
  /\ ContinueApp(k, "failed")

\* A call that carries no deadline is ended, if at all, by the transport of
\* the runtime: fetch throws and the fetcher's catch returns null.
TransportGivesUp(k) ==
  /\ aggPc = "metadata" /\ metaPc[k].pending
  /\ metaPc[k].deadline = NoDeadline
  /\ providerMode[PendingCall(k).provider] = "hang"
  /\ ContinueApp(k, "failed")

\* AbortSignal.timeout of a CDN probe fires: checkIconExists catches.
ProbeAborted(k) ==
  /\ aggPc = "metadata" /\ metaPc[k].pending
  /\ metaPc[k].deadline # NoDeadline /\ now >= metaPc[k].deadline
  /\ ContinueApp(k, "aborted")

(***************************************************************************)
(* resolveVersionFromDigest, clearVersionCache and GET /api/versions.      *)
(***************************************************************************)
\* Callers of resolveVersionFromDigest over time: up to MaxCalls calls, the
\* cache route, and a clock that passes up to MaxSeconds seconds and
\* MaxYears lifetimes of a cache entry.
MaxCalls == 2

MaxSeconds == 2

MaxYears == 1

ResolutionIdx == 1..Len(resolutions)

PendingResolutions == { c \in ResolutionIdx : resolutions[c].state = "pending" }

\* The tags a registry may report for the digest.
RegistryTags == {"1.2.3", "1.3.0"}

\* What a call may find: a tag, or none when the listing it reads has no
\* tag with the digest (the registry answers 404, or the manifest request of
\* the matching tag is refused and the tag is skipped).
RegistryFindings == RegistryTags \cup {NULL}

\* The images and the digest the callers ask for.
ResolvedImages == {"nginx:latest", "ghcr.io/acme/tool:main"}

ImageDigest == "sha256:abcdef0123456789"

\* digest.replace(/^sha256:/, ''), the form the tag listing is compared in.
normalizedDigest(digest) ==
  IF StartsWith(digest, "sha256:") THEN Sub(digest, 8, Len(digest)) ELSE digest

\* The digest as the runtime reports it, and without the algorithm prefix.
ResolvedDigests == {ImageDigest, normalizedDigest(ImageDigest)}

(***************************************************************************)
(* The tag a registry listing yields for a digest (metadata.ts, the two    *)
(* resolvers behind resolveVersionFromDigest).                             *)
(***************************************************************************)
\* Number(part) || 0 on a part of a tag name: the decimal value of a run of
\* digits, 0 for the empty part and for a part Number turns into NaN (the
\* tag names drawn hold no exponent, radix prefix or blank).
partValue(part) == IF IsDigitStr(part) THEN DecimalValue(part) ELSE 0

\* aParts[i] || 0: a part the name does not have counts 0.
partAt(parts, i) == IF i <= Len(parts) THEN partValue(parts[i]) ELSE 0

\* a.replace(/^v/i, '').split('.').map(Number), before the || 0.
tagParts(tagName) == Split(StripLeadingV(tagName), {"."})

\* The comparator handed to semanticVersions.sort: descending, part by part.
RECURSIVE comparePartsFrom(_, _, _)
comparePartsFrom(aParts, bParts, i) ==
  IF i > Len(aParts) /\ i > Len(bParts) THEN 0
  ELSE IF partAt(aParts, i) # partAt(bParts, i)
       THEN partAt(bParts, i) - partAt(aParts, i)
       ELSE comparePartsFrom(aParts, bParts, i + 1)

latestFirst(a, b) == comparePartsFrom(tagParts(a), tagParts(b), 1)

\* semanticVersions.sort((a, b) => ...): the comparator is a lexicographic
\* order of number tuples, hence consistent, and the sort is stable.
sortSemanticVersions(q) ==
  StableSort(q, [i \in 1..Len(q) |-> [j \in 1..Len(q) |-> latestFirst(q[i], q[j])]])

\* What a resolver has gathered: the fallback tag, the semantic-shaped
\* matches in the order met, the tag-listing requests and manifest requests
\* issued, and whether it threw.
NothingGathered ==
  [ foundTag |-> NULL, semanticVersions |-> <<>>, requests |-> 0, manifests |-> 0,
    threw |-> FALSE ]

\* isSemanticVersion of metadata.ts: /^v?\d+\.\d+\.\d+/.test(tag)
isSemanticTag(tag) ==
  LET start == IF Len(tag) > 0 /\ CharAt(tag, 1) = "v" THEN 2 ELSE 1
      e1 == RunEnd(tag, start, Digits)
      e2 == RunEnd(tag, e1 + 2, Digits)
      e3 == RunEnd(tag, e2 + 2, Digits)
  IN /\ e1 >= start /\ e1 < Len(tag) /\ CharAt(tag, e1 + 1) = "."
     /\ e2 >= e1 + 2 /\ e2 < Len(tag) /\ CharAt(tag, e2 + 1) = "."
     /\ e3 >= e2 + 2

\* The body of "if (matches)": a semantic-shaped name is collected, any
\* other name but "latest" is kept as the fallback when none is kept yet.
keepTag(acc, tagName) ==
  IF isSemanticTag(tagName)
  THEN [acc EXCEPT !.semanticVersions = Append(@, tagName)]
  ELSE IF Falsy(acc.foundTag) /\ tagName # "latest"
       THEN [acc EXCEPT !.foundTag = tagName]
       ELSE acc

\* [tag.digest, ...tag.images.map(img => img.digest)].filter(Boolean)
tagDigests(tag) == SelectSeq(<<tag.digest>> \o tag.images, LAMBDA d : ~Falsy(d))

\* tagDigests.some(td => td.replace(/^sha256:/, '') === normalizedDigest)
matches(tag, digest) ==
  \E i \in 1..Len(tagDigests(tag)) :
    normalizedDigest(tagDigests(tag)[i]) = normalizedDigest(digest)

\* for (const tag of payload.results) { ... }
RECURSIVE collectResults(_, _, _)
collectResults(results, digest, acc) ==
  IF results = <<>> THEN acc
  ELSE collectResults(Tail(results), digest,
                      IF matches(Head(results), digest)
                      THEN keepTag(acc, Head(results).name) ELSE acc)

\* while (page <= 5)
PageLimit == 5

\* The answer to the request for a page: the page the registry holds, 404
\* for a page it does not hold.
pageOf(pages, page) ==
  IF page <= Len(pages) THEN pages[page]
  ELSE [status |-> 404, results |-> <<>>, next |-> FALSE]

\* The loop over the pages without the limit: it ends only when a page is
\* missing, fails, is empty or announces no further page.
RECURSIVE fetchEveryPage(_, _, _, _)
fetchEveryPage(pages, digest, page, acc) ==
  LET answer == pageOf(pages, page)
      asked == [acc EXCEPT !.requests = @ + 1]
  IN IF answer.status = 404 THEN asked
     ELSE IF answer.status # 200 THEN [asked EXCEPT !.threw = TRUE]
     ELSE IF answer.results = <<>> THEN asked
     ELSE IF ~answer.next THEN collectResults(answer.results, digest, asked)
     ELSE fetchEveryPage(pages, digest, page + 1,
                         collectResults(answer.results, digest, asked))

\* The loop over the pages of the tag listing, from page on.
RECURSIVE fetchPages(_, _, _, _)
fetchPages(pages, digest, page, acc) ==
  IF page > PageLimit THEN acc
  ELSE LET answer == pageOf(pages, page)
           asked == [acc EXCEPT !.requests = @ + 1]
       IN IF answer.status = 404 THEN asked
          ELSE IF answer.status # 200 THEN [asked EXCEPT !.threw = TRUE]
          ELSE IF answer.results = <<>> THEN asked
          ELSE IF ~answer.next THEN collectResults(answer.results, digest, asked)
          ELSE fetchPages(pages, digest, page + 1,
                          collectResults(answer.results, digest, asked))

\* The end of both resolvers: the first of the sorted semantic-shaped
\* matches, else the fallback; the value is cached unless the resolver threw.
resolvedFrom(acc) ==
  [ value |-> IF acc.threw THEN NULL
              ELSE IF acc.semanticVersions # <<>>
                   THEN sortSemanticVersions(acc.semanticVersions)[1]
                   ELSE acc.foundTag,
    cached |-> ~acc.threw,
    requests |-> acc.requests,
    manifests |-> acc.manifests ]

\* resolveVersionFromDigestDockerHub past the cache check.
resolveVersionFromDigestDockerHub(pages, digest) ==
  resolvedFrom(fetchPages(pages, digest, 1, NothingGathered))

\* tagsData.tags.slice(0, 100)
ManifestLimit == 100

\* for (const tag of tagsData.tags.slice(0, 100)) { ... }: a manifest that is
\* not ok or whose request throws skips the tag; the digest compared is
\* manifest.digest || manifest.config?.digest.
RECURSIVE fetchManifests(_, _, _)
fetchManifests(tags, digest, acc) ==
  IF tags = <<>> THEN acc
  ELSE LET tag == Head(tags)
           asked == [acc EXCEPT !.manifests = @ + 1]
           manifestDigest == IF ~Falsy(tag.digest) THEN tag.digest ELSE tag.configDigest
       IN fetchManifests(Tail(tags), digest,
            IF tag.ok /\ ~Falsy(manifestDigest)
                      /\ normalizedDigest(manifestDigest) = normalizedDigest(digest)
            THEN keepTag(asked, tag.name) ELSE asked)

\* resolveVersionFromDigestGHCR past the cache check: a 404 and an empty
\* list return null before anything is cached, another failure throws.
resolveVersionFromDigestGHCR(listing, digest) ==
  LET asked == [NothingGathered EXCEPT !.requests = 1]
  IN IF listing.status = 404 \/ (listing.status = 200 /\ listing.tags = <<>>)
     THEN [resolvedFrom(asked) EXCEPT !.cached = FALSE]
     ELSE IF listing.status # 200 THEN resolvedFrom([asked EXCEPT !.threw = TRUE])
     ELSE resolvedFrom(fetchManifests(
            SubSeq(listing.tags, 1,
                   IF Len(listing.tags) < ManifestLimit THEN Len(listing.tags)
                   ELSE ManifestLimit),
            digest, asked))

\* A caller calls resolveVersionFromDigest(parseImageReference(image), digest);
\* peers are the calls that are pending when it is made.
Resolve(image, digest) ==
  /\ Len(resolutions) < MaxCalls
  /\ \E r \in { startResolution(parseImageReference(image), digest, NULL, tagCache, now) } :
       resolutions' = Append(resolutions, [r EXCEPT !.peers = PendingResolutions])
  /\ UNCHANGED <<now, cmpVars, worldVars, aggVars, metaVars, tagCache, clearedAt,
                 registryMode, backfillVars>>

\* The registry answers the pending call c and the matching tag is foundTag.
RegistryAnswers(c, foundTag) ==
  /\ resolutions[c].state = "pending"
  /\ registryMode[resolutions[c].registry] \in {"up", "slow"}
  /\ tagCache' = CachePut(tagCache, resolutions[c].key,
                          [value |-> foundTag, expires |-> now + TagTtl])
  /\ resolutions' = [resolutions EXCEPT ![c] = resolved(@, foundTag, now)]
  /\ versionMap' = thenRecord(versionMap, resolutions'[c])
  /\ UNCHANGED <<now, cmpVars, worldVars, aggVars, metaVars, clearedAt, registryMode,
                 payloadItems, backfillPc, batchFrom, batchDeadline, versionsResponse>>

\* The registry answers the pending call c, and the repository is unknown to
\* it (404) or lists no tag: the default-registry path leaves its page loop
\* and caches what it has, null; the second path returns null at once.
RegistryListsNothing(c) ==
  /\ resolutions[c].state = "pending"
  /\ registryMode[resolutions[c].registry] \in {"up", "slow"}
  /\ IF resolutions[c].registry = "hub"
     THEN /\ tagCache' = CachePut(tagCache, resolutions[c].key,
                                  [value |-> NULL, expires |-> now + TagTtl])
          /\ resolutions' = [resolutions EXCEPT ![c] = resolved(@, NULL, now)]
     ELSE /\ UNCHANGED tagCache
          /\ resolutions' = [resolutions EXCEPT ![c] = unlisted(@, now)]
  /\ UNCHANGED <<now, cmpVars, worldVars, aggVars, metaVars, clearedAt, registryMode,
                 backfillVars>>

\* The request of the pending call c fails.
RegistryFails(c) ==
  /\ resolutions[c].state = "pending"
  /\ registryMode[resolutions[c].registry] = "down"
  /\ resolutions' = [resolutions EXCEPT ![c] = failed(@, now)]
  /\ UNCHANGED <<now, cmpVars, worldVars, aggVars, metaVars, tagCache, clearedAt,
                 registryMode, backfillVars>>

\* POST of the cache route: clearVersionCache().  Clearing an empty cache
\* changes nothing.
ClearVersionCache ==
  /\ tagCache # <<>>
  /\ tagCache' = <<>>
  /\ clearedAt' = clearedAt \cup {now}
  /\ UNCHANGED <<now, cmpVars, worldVars, aggVars, metaVars, resolutions, registryMode,
                 backfillVars>>

\* Time passes between the calls: a second, or the lifetime of a cache
\* entry.  A registry that answers does so before the clock advances.
Elapse(d) ==
  /\ PendingResolutions = {}
  /\ IF d = TagTtl THEN now \div TagTtl < MaxYears ELSE now % TagTtl < MaxSeconds
  /\ now' = now + d
  /\ UNCHANGED <<cmpVars, worldVars, aggVars, metaVars, versionVars>>

\* The handler answering with a map it has not filled.
NextBatchBlank(i, promises, map) ==
  IF i <= promises
  THEN /\ backfillPc' = "batch"
       /\ batchFrom' = i
       /\ batchDeadline' = now + batchTimeout
       /\ UNCHANGED versionsResponse
  ELSE /\ backfillPc' = "done"
       /\ versionsResponse' = <<>>
       /\ UNCHANGED <<batchFrom, batchDeadline>>

\* The batch loop of GET from index i over the promises collected: the next
\* batch is awaited under a new timer, or the handler returns when no
\* promise is left: json({ versions: versionMap }) serializes the map as it
\* is then.
NextBatch(i, promises, map) ==
  IF i <= promises
  THEN /\ backfillPc' = "batch"
       /\ batchFrom' = i
       /\ batchDeadline' = now + batchTimeout
       /\ UNCHANGED versionsResponse
  ELSE /\ backfillPc' = "done"
       /\ versionsResponse' = map
       /\ UNCHANGED <<batchFrom, batchDeadline>>

\* GET /api/versions behind getAggregatedApps: the for loops start the
\* resolution of every container that needs one, then the first batch is
\* awaited.
Backfill(items) ==
  /\ backfillPc = "idle"
  /\ \E all \in { startBackfill(items, [calls |-> resolutions, map |-> versionMap],
                                tagCache, now) } :
       /\ resolutions' = all.calls
       /\ versionMap' = all.map
       /\ NextBatch(1, Len(all.calls), all.map)
  /\ UNCHANGED <<now, cmpVars, worldVars, aggVars, metaVars, tagCache, clearedAt,
                 registryMode>>

StartBackfill == Backfill(payloadItems) /\ UNCHANGED payloadItems

BatchIdx == { c \in ResolutionIdx : batchFrom <= c /\ c < batchFrom + CONCURRENCY_LIMIT }

\* Promise.all(batch) wins the race: every promise of the batch has settled.
BatchDone ==
  /\ backfillPc = "batch"
  /\ \A c \in BatchIdx : resolutions[c].state = "returned"
  /\ NextBatch(batchFrom + CONCURRENCY_LIMIT, Len(resolutions), versionMap)
  /\ UNCHANGED <<now, cmpVars, worldVars, aggVars, metaVars, tagCache, resolutions,
                 clearedAt, registryMode, payloadItems, versionMap>>

\* The timer of the batch wins the race.
BatchTimeout ==
  /\ backfillPc = "batch"
  /\ now >= batchDeadline
  /\ NextBatch(batchFrom + CONCURRENCY_LIMIT, Len(resolutions), versionMap)
  /\ UNCHANGED <<now, cmpVars, worldVars, aggVars, metaVars, tagCache, resolutions,
                 clearedAt, registryMode, payloadItems, versionMap>>

(***************************************************************************)
(* Time.  The clock advances to the earliest pending deadline; it does so  *)
(* only while every pending call is to a peer that never answers, and      *)
(* never past a timer that is due.                                         *)
(***************************************************************************)
PendingDeadlines ==
  { fetchDeadline[i] : i \in { j \in SourceIdx : fetchState[j] = "pending" } }
  \cup { infoDeadline[i] : i \in { j \in SourceIdx : infoState[j] \in {"info", "df"} } }
  \cup { metaPc[k].deadline :
           k \in { h \in MetaIdx : metaPc[h].pending /\ metaPc[h].deadline # NoDeadline } }
  \cup (IF backfillPc = "batch" THEN {batchDeadline} ELSE {})

PendingHosts ==
  { sources[j].name : j \in { k \in SourceIdx :
                              fetchState[k] = "pending" \/ infoState[k] \in {"info", "df"} } }

PendingProviders == { PendingCall(k).provider : k \in { h \in MetaIdx : metaPc[h].pending } }

PendingRegistries == { resolutions[c].registry : c \in PendingResolutions }

Tick ==
  /\ PendingDeadlines # {}
  /\ \A d \in PendingDeadlines : d > now
  /\ \A h \in PendingHosts : hostMode[h] = "hang"
  /\ \A q \in PendingProviders : providerMode[q] = "hang"
  /\ \A g \in PendingRegistries : registryMode[g] \in {"hang", "slow"}
  /\ backfillPc = "batch" => PendingResolutions \cap BatchIdx # {}
  /\ now' = CHOOSE d \in PendingDeadlines : \A e \in PendingDeadlines : d <= e
  /\ UNCHANGED <<cmpVars, worldVars, aggVars, metaVars, versionVars>>

(***************************************************************************)
(* Specifications.                                                         *)
(***************************************************************************)
CompareInit ==
  /\ now = 0 /\ CmpInit
  /\ sources = <<>> /\ hostContainers = <<>> /\ hostMode = <<>>
  /\ providerMode = NoProviders /\ iconMap = <<>> /\ AggIdle /\ VersionsIdle

SpecCompare == CompareInit /\ [][CompareAll]_vars

\* The containers a runtime may list.  Every kind carries icon and
\* description hints, so that no app needs a metadata provider.
HintLabels ==
  [NoLabels EXCEPT !["homelab.icon"] = "https://icons.test/app.png",
                   !["homelab.description"] = "An application"]

Kind(image, state, status, versionLabel) ==
  [ Image |-> image, ImageID |-> "sha256:abcdef0123456789", State |-> state,
    Status |-> status,
    Labels |-> [HintLabels EXCEPT !["org.opencontainers.image.version"] = versionLabel] ]

ContainerKinds ==
  { Kind("nginx:9", "running", "Up 2 hours", NULL),
    Kind("nginx:10", "exited", "Exited (1) 2 hours ago", "10"),
    Kind("nginx:5a", "exited", "Exited (0) 1 hour ago", "5a"),
    Kind("redis:latest", "created", "Created", "1.2.10") }

MaxContainers == 3

\* Container ids are unique per runtime: "c" and the position in the list.
WithIds(kinds) ==
  [i \in 1..Len(kinds) |->
     [ Id |-> "c" \o DecimalString(i), Image |-> kinds[i].Image, ImageID |-> kinds[i].ImageID,
       State |-> kinds[i].State, Status |-> kinds[i].Status, Labels |-> kinds[i].Labels ]]

KindLists(n) == UNION { [1..m -> ContainerKinds] : m \in 0..n }

SourceNames == <<"alpha", "beta">>

\* What the runtime of a source that does not answer holds: the aggregator
\* never gets to see it.
UnseenKinds == << Kind("nginx:10", "exited", "Exited (1) 2 hours ago", "10") >>

AggWorld ==
  /\ providerMode = NoProviders /\ iconMap = <<>>
  /\ sources \in { [i \in 1..Len(SourceNames) |->
                      [name |-> SourceNames[i], displayName |-> labels[i],
                       timeoutMs |-> NoOverride]] :
                   labels \in { <<"Alpha", "Beta">>, <<"Lab", "Lab">> } }
  /\ hostMode \in [SeqToSet(SourceNames) -> {"up", "refused", "hang"}]
  /\ \E a \in KindLists(MaxContainers) :
       \E b \in KindLists(MaxContainers - Len(a)) :
         /\ hostMode["alpha"] # "up" => a = <<>>
         /\ hostMode["beta"] # "up" => b = <<>>
         /\ hostContainers =
              [n \in SeqToSet(SourceNames) |->
                 WithIds(IF hostMode[n] # "up" THEN UnseenKinds
                         ELSE IF n = "alpha" THEN a ELSE b)]

AggNext ==
  \/ StartAggregation
  \/ \E i \in SourceIdx : HostReturns(i)
  \/ \E i \in SourceIdx : HostFails(i)
  \/ \E i \in SourceIdx : HostTimeout(i)
  \/ \E i \in SourceIdx : InfoReturns(i)
  \/ \E i \in SourceIdx : InfoFails(i)
  \/ \E i \in SourceIdx : InfoTimeout(i)
  \/ \E i \in SourceIdx : DfReturns(i)
  \/ AfterInfo
  \/ Respond
  \/ Tick

AggInit == now = 0 /\ CmpIdle /\ AggWorld /\ AggIdle /\ VersionsIdle

SpecAggregate == AggInit /\ [][AggNext]_vars

\* Grouping across hosts: the same repository written with several tags, by
\* digest, with the default registry spelled out and in another letter
\* case, next to a container with an explicit app label.
GroupKinds ==
  { Kind("nginx:1.25", "running", "Up 2 hours", NULL),
    Kind("nginx:latest", "running", "Up 2 hours", NULL),
    Kind("Index.Docker.io/Nginx:2.0", "running", "Up 1 hour", NULL),
    Kind("nginx@sha256:0123456789abcdef0123", "running", "Up 1 hour", NULL),
    [Kind("nginx:3", "running", "Up 1 hour", "3.0.1") EXCEPT !.Labels["homelab.app"] = "web"] }

GroupLists(n) == UNION { [1..m -> GroupKinds] : m \in 0..n }

GroupWorld ==
  /\ providerMode = NoProviders /\ iconMap = <<>>
  /\ sources = [i \in 1..Len(SourceNames) |->
                  [name |-> SourceNames[i], displayName |-> <<"Alpha", "Beta">>[i],
                   timeoutMs |-> NoOverride]]
  /\ hostMode \in { [alpha |-> "up", beta |-> m] : m \in {"up", "refused", "hang"} }
  /\ \E a \in GroupLists(MaxContainers) :
       \E b \in GroupLists(MaxContainers - Len(a)) :
         /\ hostMode["beta"] # "up" => b = <<>>
         /\ hostContainers =
              [n \in SeqToSet(SourceNames) |->
                 WithIds(IF hostMode[n] # "up" THEN UnseenKinds
                         ELSE IF n = "alpha" THEN a ELSE b)]

GroupInit == now = 0 /\ CmpIdle /\ GroupWorld /\ AggIdle /\ VersionsIdle

SpecGroup == GroupInit /\ [][AggNext]_vars

\* App identity: one repository written with and without the default
\* registry, in another letter case, by tag and by digest; the same path on
\* two other registries; an explicit app label; a service label next to an
\* image; and containers whose image string is empty.
IdentityKinds ==
  { Kind("nginx:1.25", "running", "Up 2 hours", NULL),
    Kind("docker.io/nginx:latest", "running", "Up 2 hours", NULL),
    Kind("Index.Docker.IO/Nginx@sha256:0123456789abcdef0123", "running", "Up 1 hour", NULL),
    Kind("ghcr.io/acme/tool:1", "running", "Up 1 hour", NULL),
    Kind("quay.io/acme/tool:1", "running", "Up 1 hour", NULL),
    [Kind("GHCR.io/Acme/Tool:2", "running", "Up 1 hour", NULL)
       EXCEPT !.Labels["com.docker.compose.service"] = "svc"],
    [Kind("nginx:3", "running", "Up 1 hour", "3.0.1") EXCEPT !.Labels["homelab.app"] = "web"],
    [Kind("", "running", "Up 1 hour", NULL)
       EXCEPT !.Labels["com.docker.compose.service"] = "stack-web",
              !.Labels["com.docker.swarm.service.name"] = "swarm-web"],
    [Kind("", "running", "Up 1 hour", NULL)
       EXCEPT !.Labels["com.docker.swarm.service.name"] = "swarm-web"],
    Kind("", "running", "Up 1 hour", NULL) }

MaxIdentity == 2

IdentityLists(n) == UNION { [1..m -> IdentityKinds] : m \in 0..n }

IdentityWorld ==
  /\ providerMode = NoProviders /\ iconMap = <<>>
  /\ sources = [i \in 1..Len(SourceNames) |->
                  [name |-> SourceNames[i], displayName |-> <<"Alpha", "Beta">>[i],
                   timeoutMs |-> NoOverride]]
  /\ hostMode \in { [alpha |-> "up", beta |-> m] : m \in {"up", "refused", "hang"} }
  /\ \E a \in IdentityLists(MaxIdentity) :
       \E b \in IdentityLists(MaxIdentity - Len(a)) :
         /\ hostMode["beta"] # "up" => b = <<>>
         /\ hostContainers =
              [n \in SeqToSet(SourceNames) |->
                 WithIds(IF hostMode[n] # "up" THEN UnseenKinds
                         ELSE IF n = "alpha" THEN a ELSE b)]

IdentityInit == now = 0 /\ CmpIdle /\ IdentityWorld /\ AggIdle /\ VersionsIdle

SpecIdentity == IdentityInit /\ [][AggNext]_vars

\* Host collection on its own: up to MaxHosts sources without containers,
\* with and without a timeout of their own.
MaxHosts == 3

TimeoutOverrides == { NoOverride, 5, 20 }

HostName(i) == "h" \o DecimalString(i)

CollectWorld ==
  /\ providerMode = NoProviders /\ iconMap = <<>>
  /\ \E n \in 1..MaxHosts :
       /\ sources \in { [i \in 1..n |-> [name |-> HostName(i), displayName |-> HostName(i),
                                          timeoutMs |-> t[i]]] :
                        t \in [1..n -> TimeoutOverrides] }
       /\ hostMode \in [{ HostName(i) : i \in 1..n } -> {"up", "refused", "hang"}]
       /\ hostContainers = [h \in { HostName(i) : i \in 1..n } |-> <<>>]

CollectInit == now = 0 /\ CmpIdle /\ CollectWorld /\ AggIdle /\ VersionsIdle

SpecCollect == CollectInit /\ [][AggNext]_vars

\* Aggregation of apps without icon and description hints: one source that
\* answers, up to MaxMetaApps containers of different images.
PlainKind(image, labels) ==
  [ Image |-> image, ImageID |-> "sha256:abcdef0123456789", State |-> "running",
    Status |-> "Up 2 hours", Labels |-> labels ]

PlainKinds ==
  << PlainKind("nginx:1.25", NoLabels),
     PlainKind("portainer/portainer:2.0", NoLabels),
     PlainKind("portainer/portainer-ce:2.0", NoLabels),
     PlainKind("ghcr.io/acme/tool:1.0", NoLabels),
     PlainKind("redis:7",
               [NoLabels EXCEPT !["org.opencontainers.image.description"] = " In-memory store "]),
     PlainKind("traefik:3", [NoLabels EXCEPT !["homelab.icon"] = "https://icons.test/t.png"]) >>

MaxMetaApps == 2

MetaWorld ==
  /\ sources = << [name |-> "alpha", displayName |-> "Alpha", timeoutMs |-> NoOverride] >>
  /\ hostMode = [n \in {"alpha"} |-> "up"]
  /\ providerMode \in [Providers -> ProviderModes]
  /\ iconMap = <<>>
  /\ \E picked \in UNION { [1..m -> 1..Len(PlainKinds)] : m \in 1..MaxMetaApps } :
       /\ \A i, j \in 1..Len(picked) : i < j => picked[i] < picked[j]
       /\ hostContainers =
            [n \in {"alpha"} |-> WithIds([i \in 1..Len(picked) |-> PlainKinds[picked[i]]])]

MetaInit == now = 0 /\ CmpIdle /\ MetaWorld /\ AggIdle /\ VersionsIdle

MetaNext ==
  \/ StartAggregation
  \/ \E i \in SourceIdx : HostReturns(i)
  \/ \E i \in SourceIdx : InfoReturns(i)
  \/ \E i \in SourceIdx : DfReturns(i)
  \/ AfterInfo
  \/ \E k \in MetaIdx : ProviderAnswers(k)
  \/ \E k \in MetaIdx : ProviderErrors(k)
  \/ \E k \in MetaIdx : ProbeAborted(k)
  \/ \E k \in MetaIdx : TransportGivesUp(k)
  \/ Respond
  \/ Tick

SpecMetadata == MetaInit /\ [][MetaNext]_vars

\* Aggregation of one app under an icon map: one source that answers, one
\* container whose icon is found at a different tier from kind to kind, a map
\* that matches by image, by base, or with a value that is no URL.
TierKinds ==
  << PlainKind("nginx:1.25", NoLabels),
     PlainKind("acme/widget:1", NoLabels),
     PlainKind("acme/gadget:1", NoLabels),
     PlainKind("nginx:1.25", [NoLabels EXCEPT !["app.icon"] = "ftp://icons.test/n.png"]),
     PlainKind("traefik:3", [NoLabels EXCEPT !["icon"] = "https://icons.test/t.png",
                                            !["description"] = " Reverse proxy "]),
     PlainKind("Index.Docker.io/Plexinc/PMS:1",
               [NoLabels EXCEPT !["homelab.description"] = "  Padded hint  "]) >>

IconMaps ==
  { <<>>,
    [k \in {"nginx:1.25", "nginx", "traefik"} |->
       CASE k = "nginx:1.25" -> "https://map.test/exact.png"
         [] k = "nginx" -> "https://map.test/base.png"
         [] OTHER -> "https://map.test/traefik.png"],
    [k \in {"nginx:1.25", "nginx", "plexinc/pms"} |->
       CASE k = "nginx:1.25" -> "map.test/no-scheme.png"
         [] k = "nginx" -> "HTTPS://Map.test/base.png"
         [] OTHER -> "https://map.test/plex.png"],
    [k \in {"acme/widget"} |-> "ftp://map.test/widget.png"] }

TiersWorld ==
  /\ sources = << [name |-> "alpha", displayName |-> "Alpha", timeoutMs |-> NoOverride] >>
  /\ hostMode = [n \in {"alpha"} |-> "up"]
  /\ providerMode \in [Providers -> ProviderModes]
  /\ iconMap \in IconMaps
  /\ \E i \in 1..Len(TierKinds) :
       hostContainers = [n \in {"alpha"} |-> WithIds(<<TierKinds[i]>>)]

TiersInit == now = 0 /\ CmpIdle /\ TiersWorld /\ AggIdle /\ VersionsIdle

SpecTiers == TiersInit /\ [][MetaNext]_vars

BackfillIdle ==
  /\ payloadItems = <<>> /\ backfillPc = "idle" /\ batchFrom = 0 /\ batchDeadline = 0
  /\ versionMap = <<>> /\ versionsResponse = <<>>

DigestInit ==
  /\ now = 0 /\ CmpIdle
  /\ sources = <<>> /\ hostContainers = <<>> /\ hostMode = <<>>
  /\ providerMode = NoProviders /\ iconMap = <<>> /\ AggIdle
  /\ tagCache = <<>> /\ resolutions = <<>> /\ clearedAt = {}
  /\ registryMode \in [Registries -> {"up", "down"}]
  /\ BackfillIdle

DigestNext ==
  \/ \E image \in ResolvedImages : Resolve(image, ImageDigest)
  \/ \E c \in ResolutionIdx : \E foundTag \in RegistryTags : RegistryAnswers(c, foundTag)
  \/ \E c \in ResolutionIdx : RegistryFails(c)
  \/ ClearVersionCache
  \/ \E d \in {1, TagTtl} : Elapse(d)

SpecDigest == DigestInit /\ [][DigestNext]_vars

\* Callers that resolve the images at the same time, with the digest in
\* either form, at registries whose listing may change between two requests.
ConcurrentInit == DigestInit

ConcurrentNext ==
  \/ \E image \in ResolvedImages : \E digest \in ResolvedDigests : Resolve(image, digest)
  \/ \E c \in ResolutionIdx : \E foundTag \in RegistryFindings : RegistryAnswers(c, foundTag)
  \/ \E c \in ResolutionIdx : RegistryListsNothing(c)
  \/ \E c \in ResolutionIdx : RegistryFails(c)

SpecConcurrent == ConcurrentInit /\ [][ConcurrentNext]_vars

\* Callers resolve images of supported and of other registries, under the
\* spellings of the host the dispatch accepts.
DispatchImages ==
  { "nginx:latest", "Index.Docker.IO/library/nginx:1", "ghcr.io/acme/tool:main",
    "GHCR.io/acme/tool:main", "quay.io/acme/tool:main",
    "registry.example.com:5000/acme/tool:1", "localhost/acme/tool:dev" }

DispatchInit == DigestInit

DispatchNext ==
  \/ \E image \in DispatchImages : Resolve(image, ImageDigest)
  \/ \E c \in ResolutionIdx : \E foundTag \in RegistryTags : RegistryAnswers(c, foundTag)
  \/ \E c \in ResolutionIdx : RegistryFails(c)

SpecDispatch == DispatchInit /\ [][DispatchNext]_vars

\* The backfill of a payload of up to MaxRequests containers that need a
\* resolution, among containers that need none.
MaxRequests == 11

\* A container of the payload with the image of its app; containerImage is
\* the image the container itself runs, the one its digest belongs to, and
\* publishedAs the cache key of that image and digest.
Published(item, containerImage) ==
  [item EXCEPT !.containerImage = containerImage,
               !.publishedAs = IF Falsy(item.imageDigest) THEN NULL
                               ELSE tagCacheKey(parseImageReference(containerImage),
                                                item.imageDigest)]

PayloadItem(i, image, version) ==
  Published([ containerKey |-> "alpha:c" \o DecimalString(i), image |-> image,
              containerImage |-> image, publishedAs |-> NULL,
              imageDigest |-> "sha256:abcdef" \o DecimalString(100000 + i),
              version |-> version ], image)

Payload(n) ==
  << [PayloadItem(0, "redis:7.2.4", "7.2.4") EXCEPT !.containerKey = "alpha:r"],
     [PayloadItem(0, "local/app:dev", NULL) EXCEPT !.imageDigest = NULL,
                                                   !.publishedAs = NULL,
                                                   !.containerKey = "alpha:l"],
     [PayloadItem(0, "quay.io/acme/tool:1", NULL) EXCEPT !.containerKey = "alpha:q"],
     Published([PayloadItem(21, "nginx:latest", "release") EXCEPT !.containerKey = "alpha:w"],
               "acme/worker:release") >>
  \o [i \in 1..n |-> PayloadItem(i, IF i % 4 = 0 THEN "ghcr.io/acme/tool:main"
                                    ELSE "nginx:latest",
                                 IF i % 3 = 0 THEN "24.04"
                                 ELSE IF i % 3 = 1 THEN "nightly" ELSE NULL)]

\* The registries' content: a repository holds the digests of the containers
\* running its image, most of them under a tag.  The tag of the repository
\* whose digest is the one of the cache key, NULL when the repository has no
\* tag with that digest.
PublishedTag(key) ==
  LET n == DecimalValue(Sub(key, Len(key) - 1, Len(key)))
  IN IF \E i \in 1..Len(payloadItems) : payloadItems[i].publishedAs = key
     THEN IF n % 5 = 2 THEN NULL ELSE "2.4." \o DecimalString(n)
     ELSE NULL

BackfillInit ==
  /\ now = 0 /\ CmpIdle
  /\ sources = <<>> /\ hostContainers = <<>> /\ hostMode = <<>>
  /\ providerMode = NoProviders /\ iconMap = <<>> /\ AggIdle
  /\ tagCache = <<>> /\ resolutions = <<>> /\ clearedAt = {}
  /\ registryMode \in { mode \in [Registries -> {"up", "slow", "down", "hang"}] :
                          mode["hub"] # "slow" }
  /\ \E n \in 1..MaxRequests : payloadItems = Payload(n)
  /\ backfillPc = "idle" /\ batchFrom = 0 /\ batchDeadline = 0 /\ versionMap = <<>>
  /\ versionsResponse = <<>>

BackfillNext ==
  \/ StartBackfill
  \/ \E c \in ResolutionIdx : RegistryAnswers(c, PublishedTag(resolutions[c].key))
  \/ \E c \in ResolutionIdx : RegistryFails(c)
  \/ BatchDone
  \/ BatchTimeout
  \/ Tick

SpecBackfill == BackfillInit /\ [][BackfillNext]_vars

\* The backfill of a payload of up to MaxSelected containers of nginx with
\* the versions an aggregation may give a container, with an image digest
\* or, for some, without one.
MaxSelected == 2

SelectedVersions ==
  { NULL, "latest", "nightly", "main", "abcdef012345", "24.04", "release", "1.2",
    "1.2.3", "v2.0.1-rc1" }

SelectedItem(i, kind) ==
  IF kind[2] THEN PayloadItem(i, "nginx:latest", kind[1])
  ELSE [PayloadItem(i, "nginx:latest", kind[1]) EXCEPT !.imageDigest = NULL,
                                                       !.publishedAs = NULL]

SelectedKinds ==
  (SelectedVersions \X {TRUE}) \cup ({NULL, "latest", "1.2.3"} \X {FALSE})

SelectInit ==
  /\ now = 0 /\ CmpIdle
  /\ sources = <<>> /\ hostContainers = <<>> /\ hostMode = <<>>
  /\ providerMode = NoProviders /\ iconMap = <<>> /\ AggIdle
  /\ tagCache = <<>> /\ resolutions = <<>> /\ clearedAt = {}
  /\ registryMode \in [Registries -> {"up", "down", "hang"}]
  /\ registryMode["ghcr"] = "up"
  /\ \E n \in 1..MaxSelected : \E kinds \in [1..n -> SelectedKinds] :
       payloadItems = [i \in 1..n |-> SelectedItem(i, kinds[i])]
  /\ backfillPc = "idle" /\ batchFrom = 0 /\ batchDeadline = 0 /\ versionMap = <<>>
  /\ versionsResponse = <<>>

SpecSelect == SelectInit /\ [][BackfillNext]_vars

\* The report and its backfill: a host whose containers carry versions that
\* the backfill resolves (a two-part tag, the label "nightly" with and
\* without a numbered tag, a branch tag) or leaves alone (a semantic label).
VersionKinds ==
  { Kind("nginx:1.2", "running", "Up 2 hours", NULL),
    Kind("nginx:nightly", "running", "Up 2 hours", "nightly"),
    Kind("nginx:1.25", "exited", "Exited (0) 1 hour ago", "nightly"),
    Kind("redis:7.2.4", "running", "Up 1 hour", "7.2.4"),
    Kind("ghcr.io/acme/tool:main", "running", "Up 1 hour", NULL) }

MaxVersionContainers == 2

VersionsWorld ==
  /\ providerMode = NoProviders /\ iconMap = <<>>
  /\ sources = << [name |-> "alpha", displayName |-> "Alpha", timeoutMs |-> NoOverride] >>
  /\ hostMode = [n \in {"alpha"} |-> "up"]
  /\ \E a \in UNION { [1..m -> VersionKinds] : m \in 1..MaxVersionContainers } :
       hostContainers = [n \in {"alpha"} |-> WithIds(a)]

\* payload.apps[].containers[], every container with the image of its app.
PayloadOf(apps) ==
  Flatten([k \in 1..Len(apps) |->
    [m \in 1..Len(apps[k].containers) |->
       Published([ containerKey |-> apps[k].containers[m].sourceId \o ":"
                                    \o apps[k].containers[m].containerId,
                   image |-> apps[k].image, containerImage |-> apps[k].image,
                   publishedAs |-> NULL,
                   imageDigest |-> apps[k].containers[m].imageDigest,
                   version |-> apps[k].containers[m].version ], apps[k].image)]])

\* GET /api/versions: the payload is the result of getAggregatedApps.
GetVersions ==
  /\ aggPc = "done" /\ payloadItems = <<>>
  /\ \E items \in { PayloadOf(response.apps) } :
       /\ payloadItems' = items
       /\ Backfill(items)

VersionsInit ==
  /\ now = 0 /\ CmpIdle /\ VersionsWorld /\ AggIdle
  /\ tagCache = <<>> /\ resolutions = <<>> /\ clearedAt = {}
  /\ registryMode \in [Registries -> {"up", "down"}]
  /\ BackfillIdle

VersionsNext ==
  \/ StartAggregation
  \/ \E i \in SourceIdx : HostReturns(i)
  \/ \E i \in SourceIdx : InfoReturns(i)
  \/ \E i \in SourceIdx : DfReturns(i)
  \/ AfterInfo
  \/ Respond
  \/ GetVersions
  \/ \E c \in ResolutionIdx : RegistryAnswers(c, PublishedTag(resolutions[c].key))
  \/ \E c \in ResolutionIdx : RegistryFails(c)
  \/ BatchDone

SpecVersions == VersionsInit /\ [][VersionsNext]_vars

(***************************************************************************)
(* Tag-choice harness: a resolver applied to the tag listing of a          *)
(* repository, past the cache check.                                       *)
(***************************************************************************)
\* The tag names a repository may list, and where a listed tag carries the
\* digest asked for: as the tag's digest (with the algorithm prefix), as the
\* digest of one of its images (without), or nowhere.
ListedNames == {"latest", "main", "1.2.2", "1.2.3-rc1", "v1.2.10", "1.0", "1.0.0"}

DigestPlaces == {"tag", "image", "none"}

OtherDigest == "sha256:0000000000000000"

\* An entry of payload.results.
HubTag(name, place) ==
  [ name |-> name,
    digest |-> IF place = "tag" THEN ImageDigest
               ELSE IF place = "image" THEN NULL ELSE OtherDigest,
    images |-> IF place = "image" THEN <<OtherDigest, normalizedDigest(ImageDigest)>>
               ELSE <<NULL>> ]

\* A name of tagsData.tags with the answer to the request for its manifest:
\* the digest as manifest.digest, as manifest.config.digest, or a manifest
\* that cannot be fetched.
GhcrTag(name, place) ==
  [ name |-> name,
    ok |-> place # "none",
    digest |-> IF place = "tag" THEN ImageDigest ELSE NULL,
    configDigest |-> IF place = "image" THEN normalizedDigest(ImageDigest) ELSE OtherDigest ]

MaxListed == 3

ListedTags == UNION { [1..n -> ListedNames \X DigestPlaces] : n \in 0..MaxListed }

\* A listing of one page at the default registry, of one tag list at GHCR.
Listing(registry, q) ==
  IF registry = "hub"
  THEN [ registry |-> "hub",
         pages |-> << [ status |-> 200,
                        results |-> [i \in 1..Len(q) |-> HubTag(q[i][1], q[i][2])],
                        next |-> FALSE ] >> ]
  ELSE [ registry |-> "ghcr", status |-> 200,
         tags |-> [i \in 1..Len(q) |-> GhcrTag(q[i][1], q[i][2])] ]

ListOff ==
  /\ now = 0 /\ CmpOff
  /\ sources = <<>> /\ hostContainers = <<>> /\ hostMode = <<>>
  /\ providerMode = NoProviders /\ iconMap = <<>> /\ AggIdle /\ VersionsIdle

TagChoiceInit ==
  /\ ListOff
  /\ \E registry \in Registries : \E q \in ListedTags :
       registryListing = Listing(registry, q)
  /\ listedDigest \in ResolvedDigests
  /\ listPc = "ready" /\ listResult = NULL

\* The resolver of the listing's registry runs on the listing.
ResolveListed ==
  /\ listPc = "ready"
  /\ listResult' =
       IF registryListing.registry = "hub"
       THEN resolveVersionFromDigestDockerHub(registryListing.pages, listedDigest)
       ELSE resolveVersionFromDigestGHCR(registryListing, listedDigest)
  /\ listPc' = "resolved"
  /\ UNCHANGED <<registryListing, listedDigest, cmpA, cmpB, cmpC, cmpPc, cmpAB, cmpBA,
                 cmpBC, cmpAC, cmpAA, poolVars, now, worldVars, aggVars, metaVars,
                 versionVars>>

SpecTagChoice == TagChoiceInit /\ [][ResolveListed]_vars

\* Long listings: up to MaxPages pages of one tag each at the default
\* registry, every page but the last (the last too in an endless listing)
\* announcing a further page, possibly followed by a page that fails; up to
\* MaxTags tags at GHCR, some manifests of which cannot be fetched.
MaxPages == 6

MaxTags == 101

NumberedTag(i) == "1.0." \o DecimalString(i)

LongPages(n, place, endless, broken) ==
  [i \in 1..n |-> [ status |-> 200,
                    results |-> <<HubTag(NumberedTag(i), place)>>,
                    next |-> (i < n \/ endless) ]]
  \o (IF broken THEN <<[status |-> 500, results |-> <<>>, next |-> FALSE]>> ELSE <<>>)

LongTags(n) ==
  [i \in 1..n |-> GhcrTag(NumberedTag(i),
                          IF i % 3 = 0 THEN "none" ELSE IF i % 2 = 0 THEN "tag" ELSE "image")]

ListingInit ==
  /\ ListOff
  /\ \/ \E n \in 0..MaxPages : \E place \in {"tag", "none"} : \E endless, broken \in BOOLEAN :
          registryListing = [registry |-> "hub", pages |-> LongPages(n, place, endless, broken)]
     \/ \E n \in 0..MaxTags : \E status \in {200, 404, 500} :
          registryListing = [registry |-> "ghcr", status |-> status, tags |-> LongTags(n)]
  /\ listedDigest \in ResolvedDigests
  /\ listPc = "ready" /\ listResult = NULL

SpecListing == ListingInit /\ [][ResolveListed]_vars

(***************************************************************************)
(* Properties of the version comparator (SpecCompare).                     *)
(***************************************************************************)
\* C7: for every pair of nullable version strings a and b the comparator is
\* antisymmetric, compareVersions(a, b) = -compareVersions(b, a), and
\* reflexive, compareVersions(a, a) = 0.
C7_Antisymmetric ==
  cmpPc = "compared" => (cmpAB = -cmpBA /\ cmpAA = 0)

C7_Witness ==
  /\ cmpPc = "compared"
  /\ cmpA = "1.2.3" /\ cmpB = "1.2.10"
  /\ cmpAB = -7 /\ cmpBA = 7 /\ cmpAA = 0

\* C8: the comparator is transitive: compareVersions(a, b) <= 0 and
\* compareVersions(b, c) <= 0 imply compareVersions(a, c) <= 0, also when
\* segments at one position are numeric in one string and not in another.
C8_Transitive ==
  cmpPc = "compared" => ((cmpAB <= 0 /\ cmpBC <= 0) => cmpAC <= 0)

\* A version segment as written: non-empty text free of separators.
IsPlainSegment(text) ==
  /\ Len(text) > 0
  /\ \A i \in 1..Len(text) : CharAt(text, i) \notin {".", "_", "+", "-", " "}

\* a is written x.y and b is written x.y.z, for segments x, y and z.
IsXY(a) ==
  LET parts == Split(a, {"."})
  IN Len(parts) = 2 /\ IsPlainSegment(parts[1]) /\ IsPlainSegment(parts[2])

IsXYZ(a, b) ==
  LET parts == Split(b, {"."})
  IN /\ Len(parts) = 3 /\ IsPlainSegment(parts[3])
     /\ a = parts[1] \o "." \o parts[2]

\* C15: the comparator orders numeric segments numerically, ignores a
\* leading v, and puts a version x.y below every x.y.z:
\* compareVersions("1.2.3", "1.2.10") < 0, compareVersions("v2.0", "1.9.9") > 0
\* and compareVersions("x.y", "x.y.z") < 0.
C15_NumericShorterLower ==
  cmpPc = "compared" =>
    /\ (cmpA = "1.2.3" /\ cmpB = "1.2.10") => cmpAB < 0
    /\ (cmpA = "v2.0" /\ cmpB = "1.9.9") => cmpAB > 0
    /\ (IsXY(cmpA) /\ IsXYZ(cmpA, cmpB)) => cmpAB < 0

C15_Witness ==
  /\ cmpPc = "compared"
  /\ cmpA = "1.2" /\ cmpB = "1.2.10" /\ IsXY(cmpA) /\ IsXYZ(cmpA, cmpB)
  /\ cmpAB = -1 /\ cmpBA = 1

\* The version is "latest" in some letter case, as written and after
\* trimming.
LatestSpelled(value) == value # NULL /\ ToLower(value) = LATEST_TOKEN

\* What the comparator owes to a version v: "latest" compares greater, null
\* and the empty string compare less.
LatestAboveEmptyBelow ==
  /\ LatestSpelled(cmpA) => cmpAB > 0
  /\ cmpA \in {NULL, ""} => cmpAB < 0

\* C16 as stated: for every non-empty version string v that is not "latest"
\* in any letter case, compareVersions("latest", v) > 0,
\* compareVersions(null, v) < 0 and compareVersions("", v) < 0; two
\* spellings of "latest" that differ only in case compare equal.
C16_LatestHighestEmptyLowest ==
  cmpPc = "compared" =>
    /\ (~Falsy(cmpB) /\ ~LatestSpelled(cmpB)) => LatestAboveEmptyBelow
    /\ (LatestSpelled(cmpA) /\ LatestSpelled(cmpB)) => cmpAB = 0

\* C16 amended: the same for every version string v that, once surrounding
\* white space is trimmed, is non-empty and is not "latest" in any letter
\* case; a string of white space compares as the empty string and a padded
\* "latest" as "latest".
C16_LatestHighestBlankLowest ==
  cmpPc = "compared" =>
    /\ (~Falsy(normalize(cmpB)) /\ ~isLatest(cmpB)) => LatestAboveEmptyBelow
    /\ (isLatest(cmpA) /\ isLatest(cmpB)) => cmpAB = 0

C16_Witness ==
  /\ cmpPc = "compared"
  /\ cmpA = "Latest" /\ cmpB = "abcdef012345" /\ cmpC = " LATEST"
  /\ cmpAB = 1 /\ cmpBA = -1 /\ cmpAC = 0

(***************************************************************************)
(* The runtime-client pool (src/lib/server/docker-client.ts).              *)
(***************************************************************************)
\* new URL(value) accepts a value that starts with a scheme.
UrlParses(value) == IndexOf(value, ":") > 1

\* buildOptions: the options of a source with a socket path or an endpoint
\* that parses; it throws for any other source.
buildOptionsThrows(source) ==
  IF ~Falsy(source.socketPath) THEN FALSE
  ELSE IF ~Falsy(source.endpoint) THEN ~UrlParses(source.endpoint)
  ELSE TRUE

\* new Docker(options): a client of its own, told from every other by the
\* number of its construction.
newDocker(n) == "docker" \o DecimalString(n)

\* getDockerClient constructing a client on every call.
getDockerClientAlwaysNew(pool, count, source) ==
  IF buildOptionsThrows(source)
  THEN [ clients |-> pool, created |-> count, client |-> NULL ]
  ELSE [ clients |-> CachePut(pool, source.name, newDocker(count + 1)),
         created |-> count + 1, client |-> newDocker(count + 1) ]

\* getDockerClient on the Map pool after count constructions: the Map and
\* the count after the call and the client returned (NULL when the call
\* throws).
getDockerClient(pool, count, source) ==
  IF source.name \notin DOMAIN pool
  THEN IF buildOptionsThrows(source)
       THEN [ clients |-> pool, created |-> count, client |-> NULL ]
       ELSE [ clients |-> CachePut(pool, source.name, newDocker(count + 1)),
              created |-> count + 1, client |-> newDocker(count + 1) ]
  ELSE [ clients |-> pool, created |-> count, client |-> pool[source.name] ]

\* The requests in flight that ask for clients, and the calls they make.
PoolRequests == {"apps", "stats", "details"}

MaxPoolCalls == 4

\* Three sources reached over a socket, over an endpoint, and configured
\* with an endpoint that is no URL.
PoolSources ==
  << [name |-> "alpha", displayName |-> "Alpha", timeoutMs |-> NoOverride,
      socketPath |-> "/var/run/docker.sock", endpoint |-> NULL],
     [name |-> "beta", displayName |-> "Beta", timeoutMs |-> NoOverride,
      socketPath |-> NULL, endpoint |-> "tcp://10.0.0.2:2375"],
     [name |-> "gamma", displayName |-> "Gamma", timeoutMs |-> NoOverride,
      socketPath |-> NULL, endpoint |-> "10.0.0.3"] >>

\* A request calls getDockerClient(source): the call runs to its end before
\* any other code of the process runs.
GetDockerClient(request, i) ==
  /\ Len(handed) < MaxPoolCalls
  /\ LET call == getDockerClient(clients, created, sources[i])
     IN /\ clients' = call.clients
        /\ created' = call.created
        /\ handed' = Append(handed, [request |-> request, name |-> sources[i].name,
                                     client |-> call.client])
  /\ UNCHANGED <<now, cmpA, cmpB, cmpC, cmpPc, cmpAB, cmpBA, cmpBC, cmpAC, cmpAA, listVars,
                 worldVars, aggVars, metaVars, versionVars>>

PoolInit ==
  /\ now = 0 /\ CmpIdle
  /\ sources = PoolSources
  /\ hostContainers = <<>> /\ hostMode = <<>>
  /\ providerMode = NoProviders /\ iconMap = <<>> /\ AggIdle /\ VersionsIdle

PoolNext == \E request \in PoolRequests : \E i \in SourceIdx : GetDockerClient(request, i)

SpecPool == PoolInit /\ [][PoolNext]_vars

(***************************************************************************)
(* Properties of the aggregate result (SpecAggregate).                     *)
(***************************************************************************)
ResponsePairs == SeqToSet(instancePairs(response.apps))

ResponseInstances == { p.container : p \in ResponsePairs }

FailedNames == { sources[i].name : i \in { j \in SourceIdx : fetchState[j] = "failed" } }

\* C1: in the result every app's latestVersion is the comparator-maximum of
\* its version set: an element of versions that no version exceeds, and
\* null only when the set is empty.
C1_LatestIsComparatorMax ==
  aggPc = "done" =>
    \A k \in 1..Len(response.apps) :
      LET app == response.apps[k]
      IN IF Len(app.versions) = 0 THEN app.latestVersion = NULL
         ELSE /\ app.latestVersion \in SeqToSet(app.versions)
              /\ \A v \in SeqToSet(app.versions) :
                   compareVersions(v, app.latestVersion) <= 0

\* What identifies a grouping: per app its identity, display data, version
\* set and instances.
Grouping(apps) ==
  { [ id |-> apps[k].id, name |-> apps[k].name, displayName |-> apps[k].displayName,
      image |-> apps[k].image, versions |-> SeqToSet(apps[k].versions),
      containers |-> SeqToSet(apps[k].containers) ] : k \in 1..Len(apps) }

\* The grouping of a configuration that holds only the sources that
\* answered.
GroupingWithoutFailed ==
  LET keptIdx == { i \in SourceIdx : sources[i].name \notin FailedNames }
      kept == [j \in 1..Cardinality(keptIdx) |->
                 sources[CHOOSE i \in keptIdx :
                           Cardinality({ h \in keptIdx : h < i }) = j - 1]]
      entries == groupContainers(<<>>,
                   [j \in 1..Len(kept) |->
                      [source |-> kept[j], containers |-> hostContainers[kept[j].name]]])
  IN Grouping([k \in 1..Len(entries) |-> entries[k].app])

\* C2: a host whose container listing fails or times out has exactly one
\* warning with its source name and no instance in any app, and the other
\* hosts' containers are grouped as if that host were not configured.
C2_PartialFailure ==
  aggPc = "done" =>
    /\ \A n \in FailedNames :
         /\ Cardinality({ k \in 1..Len(response.warnings) :
                            response.warnings[k].source = n }) = 1
         /\ \A inst \in ResponseInstances : inst.sourceId # n
    /\ Grouping(response.apps) = GroupingWithoutFailed

C2_Witness ==
  /\ aggPc = "done"
  /\ hostMode["alpha"] = "hang" /\ fetchState[1] = "failed"
  /\ hostMode["beta"] = "up" /\ fetchState[2] = "ok"
  /\ response.totalContainers >= 2
  /\ Len(response.warnings) = 1

C10_CrashedPerHost ==
  aggPc = "done" =>
    \A i \in SourceIdx :
      (\E p \in ResponsePairs : p.container.sourceId = sources[i].name) =>
        \E k \in 1..Len(response.serverStats) :
          /\ response.serverStats[k].sourceLabel = sources[i].displayName
          /\ response.serverStats[k].crashed =
               Cardinality({ p \in ResponsePairs :
                 /\ p.container.sourceId = sources[i].name
                 /\ p.container.state # "running"
                 /\ p.container.exitCode # NoExitCode
                 /\ p.container.exitCode # 0 })

(***************************************************************************)
(* Properties of the host collection phase (SpecCollect).                  *)
(***************************************************************************)
RECURSIVE maxTimeout(_)
maxTimeout(i) ==
  IF i = 0 THEN 0
  ELSE Max2(maxTimeout(i - 1), effectiveTimeout(sources[i]))

LargestDeadline == maxTimeout(SourceCount)

WarningsFor(name) ==
  Cardinality({ k \in 1..Len(warnings) : warnings[k].source = name })

\* C6: with a host that never answers, the collection phase finishes when
\* that host's deadline has elapsed, with a warning for it; no call and no
\* wait lasts longer than the largest single-host deadline, whatever the
\* number of hosts, and hosts that answer do so without waiting for it.
C6_CollectionBounded ==
  /\ aggPc = "collect" =>
       /\ now - collectStart <= LargestDeadline
       /\ ENABLED AggNext
       /\ \A i \in SourceIdx :
            fetchState[i] = "pending" =>
              /\ hostMode[sources[i].name] = "up" => ENABLED HostReturns(i)
              /\ now >= fetchDeadline[i] => ENABLED HostTimeout(i)
  /\ aggPc \notin {"idle", "collect"} =>
       \A i \in SourceIdx :
         /\ Settled(fetchState[i])
         /\ fetchDuration[i] <= LargestDeadline
         /\ hostMode[sources[i].name] = "up" =>
              fetchState[i] = "ok" /\ fetchDuration[i] = 0
         /\ hostMode[sources[i].name] = "hang" =>
              /\ fetchState[i] = "failed"
              /\ fetchDuration[i] = effectiveTimeout(sources[i])
              /\ WarningsFor(sources[i].name) = 1

C6_Witness ==
  /\ aggPc = "info"
  /\ SourceCount = 3
  /\ hostMode["h1"] = "hang" /\ hostMode["h2"] = "up" /\ hostMode["h3"] = "hang"
  /\ sources[1].timeoutMs = 20 /\ sources[3].timeoutMs = 5
  /\ now = collectStart + 20
  /\ Len(warnings) = 2

\* C21: every remote call the collection makes to a source (list containers,
\* host info, disk usage) gets the source's own timeout as its deadline when
\* the source defines one, and the global timeout otherwise.
C21_OverrideIsDeadline ==
  [][\A i \in SourceIdx :
       /\ fetchDeadline'[i] # fetchDeadline[i] =>
            fetchDeadline'[i] = now + effectiveTimeout(sources[i])
       /\ infoDeadline'[i] # infoDeadline[i] =>
            infoDeadline'[i] = now + effectiveTimeout(sources[i])]_vars

\* The part of C21 about the list call.
ListCallUsesOverride ==
  [][\A i \in SourceIdx :
       fetchDeadline'[i] # fetchDeadline[i] =>
         fetchDeadline'[i] = now + effectiveTimeout(sources[i])]_vars

(***************************************************************************)
(* Properties of the metadata resolution (SpecMetadata).                   *)
(***************************************************************************)
\* The apps whose resolution waits for a provider.
PendingApps == { k \in MetaIdx : metaPc[k].pending }

\* C5: every outbound call made during aggregation carries its own
\* deadline, so that no call to a provider that never answers can hold the
\* aggregate response back.
C5_EveryCallTimeBoxed ==
  \A k \in PendingApps : metaPc[k].deadline # NoDeadline

\* What a resolution without failures gives: the value of the first call of
\* the plan that its provider answers with one.
RECURSIVE firstServed(_, _)
firstServed(calls, phase) ==
  IF Len(calls) = 0 THEN NULL
  ELSE LET value == fieldOf(callResult(Head(calls),
                                       answerOf(Head(calls), providerMode[Head(calls).provider])),
                            phase)
       IN IF ~Falsy(value) THEN value ELSE firstServed(Tail(calls), phase)

expectedIcon(entry) ==
  IF labelIcon(entry) # NULL THEN labelIcon(entry)
  ELSE IF mapIcon(entry) # NULL THEN mapIcon(entry)
  ELSE firstServed(iconPlan(entry), "icon")

expectedDescription(entry) ==
  IF entry.descriptionHint # NULL THEN entry.descriptionHint
  ELSE IF labelDescription(entry) # NULL THEN labelDescription(entry)
  ELSE firstServed(descriptionPlan(entry), "description")

\* Every app is in the result, with warnings and statistics that do not
\* depend on the metadata.
AllAppsReported ==
  /\ Len(response.apps) = Len(workingApps)
  /\ \A k \in MetaIdx : \E app \in SeqToSet(response.apps) : app.id = workingApps[k].app.id
  /\ response.warnings = warnings
  /\ response.totalContainers = Len(containerMatrix[1])
  /\ response.serverStats =
       assembleResponse([k \in MetaIdx |->
                           [workingApps[k].app EXCEPT !.icon = NULL, !.description = NULL]],
                        warnings, systemInfoMap).serverStats

\* App k has the icon and the description of a resolution without failures.
Unaffected(k) ==
  \E app \in SeqToSet(response.apps) :
    /\ app.id = workingApps[k].app.id
    /\ app.icon = expectedIcon(workingApps[k])
    /\ app.description = expectedDescription(workingApps[k])

\* C17: when a provider call fails for one app, that app is still in the
\* result, and every other app, the statistics and the warnings are the same
\* as if the failure had not happened.
C17_FailureIsolated ==
  aggPc = "done" =>
    /\ AllAppsReported
    /\ \A k \in MetaIdx \ callErrors : Unaffected(k)

\* C17 without the other apps: the failing app and all others are in the
\* result, with the same warnings and statistics.
C17_AppsReported ==
  aggPc = "done" => AllAppsReported

(***************************************************************************)
(* Properties of the digest resolution (SpecDigest, SpecBackfill).         *)
(***************************************************************************)
\* Call c2 started at a later time than call c1 returned, for the same key.
LaterCall(c1, c2) ==
  /\ resolutions[c1].state = "returned" /\ ~Falsy(resolutions[c1].result)
  /\ resolutions[c2].key = resolutions[c1].key
  /\ resolutions[c2].startedAt > resolutions[c1].endedAt

\* Call c2 returned the tag of call c1 without a registry request.
SameTagNoRequest(c1, c2) ==
  /\ ~resolutions[c2].requested
  /\ resolutions[c2].state = "returned"
  /\ resolutions[c2].result = resolutions[c1].result

EntryStands(c1, t) ==
  /\ t < resolutions[c1].validUntil
  /\ \A cleared \in clearedAt : cleared < resolutions[c1].endedAt \/ cleared > t
  /\ \A c3 \in ResolutionIdx \ {c1} :
       (resolutions[c3].wrote /\ resolutions[c3].key = resolutions[c1].key) =>
         (resolutions[c3].endedAt < resolutions[c1].endedAt \/ resolutions[c3].endedAt > t)

C4_BoundedInFlight ==
  Cardinality(PendingResolutions) <= CONCURRENCY_LIMIT

\* Calls c1 and c2 ask for one repository and one digest, written with or
\* without the algorithm prefix.
SameDigest(c1, c2) ==
  /\ resolutions[c1].registry = resolutions[c2].registry
  /\ \E image \in ResolvedImages : \E d1, d2 \in ResolvedDigests :
       /\ resolutions[c1].key = tagCacheKey(parseImageReference(image), d1)
       /\ resolutions[c2].key = tagCacheKey(parseImageReference(image), d2)

\* C14: the digest cache is keyed by the normalized digest: a call with
\* digest "sha256:H" and a call with digest "H" for one repository address
\* one cache entry, so once one of them has resolved the other is a cache hit
\* with no registry request.
C14_NormalizedDigestKey ==
  \A c1, c2 \in ResolutionIdx :
    ( /\ c1 < c2 /\ SameDigest(c1, c2)
      /\ c1 \notin resolutions[c2].peers /\ resolutions[c1].wrote )
    => ( /\ resolutions[c2].key = resolutions[c1].key
         /\ ~resolutions[c2].requested
         /\ resolutions[c2].result = resolutions[c1].result )

\* C20: two resolutions of one key that run concurrently (both miss the cache
\* before either writes) write the same value, so that a tag in the cache is
\* never replaced by null or by another tag.
C20_ConcurrentWritesAgree ==
  \A c2 \in ResolutionIdx : \A c1 \in resolutions[c2].peers :
    ( /\ resolutions[c1].key = resolutions[c2].key
      /\ resolutions[c1].wrote /\ resolutions[c2].wrote )
    => /\ resolutions[c1].result = resolutions[c2].result
       /\ tagCache[resolutions[c1].key].value = resolutions[c1].result

\* Calls for one cache key: the later one, made after the earlier has
\* resolved, is a cache hit.
SameKeyCached ==
  \A c1, c2 \in ResolutionIdx :
    ( /\ c1 < c2 /\ resolutions[c1].key = resolutions[c2].key
      /\ c1 \notin resolutions[c2].peers /\ resolutions[c1].wrote )
    => ( /\ ~resolutions[c2].requested
         /\ resolutions[c2].result = resolutions[c1].result )

\* The tags the backfill has returned for the containers of the app.
BackfilledTags(app) ==
  { versionsResponse[key] :
      key \in { app.containers[m].sourceId \o ":" \o app.containers[m].containerId :
                  m \in 1..Len(app.containers) } \cap DOMAIN versionsResponse }

\* C13: after a container's version has been backfilled to a tag t, the
\* latestVersion of its app is the maximum of the app's versions including
\* t: t does not compare greater than latestVersion.
C13_LatestVersionFollowsBackfill ==
  backfillPc = "done" =>
    \A k \in 1..Len(response.apps) : \A t \in BackfilledTags(response.apps[k]) :
      compareVersions(t, response.apps[k].latestVersion) <= 0

\* The calls that were answered without error and found no tag.
FoundNothing ==
  { c \in ResolutionIdx : /\ resolutions[c].state = "returned" /\ resolutions[c].requested
                          /\ ~resolutions[c].error /\ resolutions[c].result = NULL }

\* C22: on both registry paths a resolve that completes without error and
\* without a matching tag stores a negative entry under its key, and a
\* repeated resolve of the key returns null without a registry request.
C22_NotFoundCached ==
  /\ \A c \in FoundNothing : resolutions[c].wrote
  /\ \A c1 \in FoundNothing : \A c2 \in ResolutionIdx :
       ( /\ c1 < c2 /\ resolutions[c2].key = resolutions[c1].key
         /\ resolutions[c2].peers = {} /\ c2 = c1 + 1 )
       => ~resolutions[c2].requested /\ resolutions[c2].result = NULL

\* The part of C22 that holds: the default-registry path caches every
\* answer, and the second path caches the answer of a listing with tags.
NotFoundCachedWhenListed ==
  \A c \in FoundNothing :
    resolutions[c].registry = "hub" => resolutions[c].wrote

\* The payload's container with the key.
ItemsKeyed(key) ==
  { i \in 1..Len(payloadItems) : payloadItems[i].containerKey = key }

\* The calls of the backfill that have returned a tag.
TagReturned(calls) ==
  { c \in 1..Len(calls) : /\ calls[c].state = "returned" /\ calls[c].containerKey # NULL
                          /\ ~Falsy(calls[c].result) }

\* The tag of the digest in the repository of the image.
TagOf(image, digest) == PublishedTag(tagCacheKey(parseImageReference(image), digest))

\* The calls of the backfill for the container that the registry has answered.
AnsweredFor(key) ==
  { c \in ResolutionIdx : /\ resolutions[c].containerKey = key
                          /\ resolutions[c].state = "returned" /\ resolutions[c].wrote }

\* C12 as stated: a container with a digest and a non-semantic version whose
\* digest matches a tag t of its image's repository is mapped to t under its
\* own key once its resolution has been answered, and no container is mapped
\* to a tag resolved for another container.
C12_DigestTagMapped ==
  /\ \A i \in 1..Len(payloadItems) :
       ( /\ needsResolution(payloadItems[i])
         /\ AnsweredFor(payloadItems[i].containerKey) # {}
         /\ TagOf(payloadItems[i].containerImage, payloadItems[i].imageDigest) # NULL )
       => /\ payloadItems[i].containerKey \in DOMAIN versionMap
          /\ versionMap[payloadItems[i].containerKey] =
               TagOf(payloadItems[i].containerImage, payloadItems[i].imageDigest)
  /\ \A key \in DOMAIN versionMap : \A i \in ItemsKeyed(key) :
       versionMap[key] = TagOf(payloadItems[i].containerImage, payloadItems[i].imageDigest)

\* What the backfill does keep: a call that returns a tag is recorded under
\* the key of the container it was started for, and an entry is the tag the
\* repository of the app's image holds for the container's digest.
RecordedUnderOwnKey ==
  /\ \A c \in TagReturned(resolutions) :
       /\ resolutions[c].containerKey \in DOMAIN versionMap
       /\ versionMap[resolutions[c].containerKey] = resolutions[c].result
  /\ \A key \in DOMAIN versionMap :
       /\ Cardinality(ItemsKeyed(key)) = 1
       /\ \A i \in ItemsKeyed(key) :
            /\ needsResolution(payloadItems[i])
            /\ versionMap[key] = TagOf(payloadItems[i].image, payloadItems[i].imageDigest)

C12_Witness ==
  /\ Len(payloadItems) > 7
  /\ payloadItems[5].containerKey = "alpha:c1" /\ payloadItems[5].version = "nightly"
  /\ DOMAIN versionMap = {"alpha:c1", "alpha:c4"}
  /\ AnsweredFor("alpha:w") # {}
  /\ versionMap["alpha:c1"] = "2.4.1" /\ versionMap["alpha:c4"] = "2.4.4"

\* The number of batches of n promises.
BatchCount(n) == (n + CONCURRENCY_LIMIT - 1) \div CONCURRENCY_LIMIT

C18_AppsHaveInstances ==
  /\ \A k \in 1..Len(workingApps) : Len(workingApps[k].app.containers) >= 1
  /\ \A k \in 1..Len(response.apps) : Len(response.apps[k].containers) >= 1

C18_Witness ==
  /\ aggPc = "done"
  /\ Len(response.apps) = 2
  /\ \E k \in 1..Len(response.apps) : Len(response.apps[k].containers) = 1
  /\ \E k \in 1..Len(response.apps) : Len(response.apps[k].containers) = 2

\* The containers collected, with the source that listed them.
Collected ==
  UNION { { [source |-> sources[i], container |-> containerMatrix[i][m]] :
              m \in 1..Len(containerMatrix[i]) } : i \in SourceIdx }

\* The apps of the result that hold the instance of a collected container.
AppsHolding(x) ==
  { k \in 1..Len(response.apps) :
      \E m \in 1..Len(response.apps[k].containers) :
        /\ response.apps[k].containers[m].sourceId = x.source.name
        /\ response.apps[k].containers[m].containerId = x.container.Id }

\* Registry after default-registry elision and repository without regard to
\* letter case, read off the image reference.
NormalizedRepository(container) ==
  LET ref == parseImageReference(container.Image)
  IN [ registry |-> IF Falsy(ref.registry) THEN NULL
                    ELSE IF ToLower(ref.registry) \in {"docker.io", "index.docker.io"} THEN NULL
                    ELSE ToLower(ref.registry),
       repository |-> ToLower(ref.repository) ]

Unlabelled(container) == Falsy(container.Labels["homelab.app"])

\* C11: containers on any hosts that share a normalized repository and carry
\* no app label are instances of one and the same app, every app's versions
\* are the deduplicated versions of its containers, and nginx:1.25 on one
\* host with nginx:latest on the other give one app with versions
\* <<"1.25", "latest">> and latestVersion "latest".
C11_SameRepositoryOneApp ==
  aggPc = "done" =>
    /\ \A x \in Collected : Cardinality(AppsHolding(x)) = 1
    /\ \A x, y \in Collected :
         ( /\ Unlabelled(x.container) /\ Unlabelled(y.container)
           /\ NormalizedRepository(x.container) = NormalizedRepository(y.container) )
         => AppsHolding(x) = AppsHolding(y)
    /\ \A k \in 1..Len(response.apps) :
         /\ SeqToSet(response.apps[k].versions) =
              { containerVersion(x.container) : x \in { y \in Collected : k \in AppsHolding(y) } }
              \ {NULL, ""}
         /\ Cardinality(SeqToSet(response.apps[k].versions)) = Len(response.apps[k].versions)
    /\ ( /\ Len(containerMatrix[1]) = 1 /\ containerMatrix[1][1].Image = "nginx:1.25"
         /\ Len(containerMatrix[2]) = 1 /\ containerMatrix[2][1].Image = "nginx:latest" )
       => /\ Len(response.apps) = 1
          /\ response.apps[1].versions = <<"1.25", "latest">>
          /\ response.apps[1].latestVersion = "latest"

C11_Witness ==
  /\ aggPc = "done"
  /\ Len(containerMatrix[1]) = 2 /\ containerMatrix[1][1].Image = "nginx:1.25"
  /\ containerMatrix[1][2].Image = "nginx:3"
  /\ Len(containerMatrix[2]) = 1 /\ containerMatrix[2][1].Image = "Index.Docker.io/Nginx:2.0"
  /\ Len(response.apps) = 2
  /\ \E k \in 1..2 : /\ response.apps[k].id = "nginx"
                       /\ response.apps[k].versions = <<"1.25", "2.0">>
                       /\ Len(response.apps[k].containers) = 2

(***************************************************************************)
(* Properties of the tag choice.                                           *)
(***************************************************************************)
\* The entries of a one-page listing, and whether an entry carries the
\* digest asked for where its registry's resolver looks for it.
ListedEntries ==
  IF registryListing.registry = "hub" THEN registryListing.pages[1].results
  ELSE registryListing.tags

Carries(entry) ==
  IF registryListing.registry = "hub"
  THEN \E d \in ({entry.digest} \cup SeqToSet(entry.images)) \ {NULL} :
         normalizedDigest(d) = normalizedDigest(listedDigest)
  ELSE /\ entry.ok
       /\ normalizedDigest(IF entry.digest # NULL THEN entry.digest ELSE entry.configDigest)
            = normalizedDigest(listedDigest)

\* The names of the matching entries, in listing order.
MatchingNames ==
  LET carrying == SelectSeq(ListedEntries, Carries)
  IN [i \in 1..Len(carrying) |-> carrying[i].name]

SemanticMatches == { n \in SeqToSet(MatchingNames) : isSemanticTag(n) }

FallbackMatches == SelectSeq(MatchingNames, LAMBDA n : ~isSemanticTag(n) /\ n # "latest")

\* C23: at the default registry the tag resolved is, among the listed tags
\* whose tag digest or image digest equals the digest asked for (prefix
\* stripped), the greatest semantic-shaped one by the digit groups of the
\* version comparator; without a semantic-shaped match the first match in
\* listing order that is not "latest"; null when nothing or only "latest"
\* matches.
C23_TagChoice ==
  (listPc = "resolved" /\ registryListing.registry = "hub") =>
    IF SemanticMatches # {}
    THEN /\ listResult.value \in SemanticMatches
         /\ \A other \in SemanticMatches : compareVersions(other, listResult.value) <= 0
    ELSE IF FallbackMatches # <<>> THEN listResult.value = FallbackMatches[1]
    ELSE listResult.value = NULL

\* What holds instead: the same choice with the semantic-shaped matches
\* ordered by the numbers of their dot-separated parts, a part that is not a
\* run of digits counting 0, the first listed among equals.
TagChoiceByParts ==
  (listPc = "resolved" /\ registryListing.registry = "hub") =>
    IF SemanticMatches # {}
    THEN /\ listResult.value \in SemanticMatches
         /\ \A other \in SemanticMatches : latestFirst(listResult.value, other) <= 0
    ELSE IF FallbackMatches # <<>> THEN listResult.value = FallbackMatches[1]
    ELSE listResult.value = NULL

\* C24: at either registry the tag picked among the semantic-shaped matches
\* is a maximum of them under compareVersions.
C24_PickIsComparatorMaximum ==
  (listPc = "resolved" /\ SemanticMatches # {}) =>
    /\ listResult.value \in SemanticMatches
    /\ \A other \in SemanticMatches : compareVersions(other, listResult.value) <= 0

\* What holds instead: the pick is a maximum under compareVersions among the
\* semantic-shaped matches that carry no suffix behind their third number.
PickIsMaximumOfPlain ==
  (listPc = "resolved" /\ SemanticMatches # {}
     /\ \A n \in SemanticMatches : ~Includes(n, "-")) =>
    /\ listResult.value \in SemanticMatches
    /\ \A other \in SemanticMatches : compareVersions(other, listResult.value) <= 0

\* C26: a resolve at the default registry ends after at most 5 requests for
\* a page of the tag listing, also when every page holds tags and announces
\* a further page; a resolve at the second registry requests at most 100
\* manifests.
C26_BoundedRequests ==
  listPc = "resolved" =>
    /\ registryListing.registry = "hub" => listResult.requests <= 5
    /\ registryListing.registry = "ghcr" =>
         (listResult.requests <= 1 /\ listResult.manifests <= 100)

\* A listing of more than 5 pages, each with a tag and announcing a further
\* page, has been resolved with 5 requests.
C26_Witness ==
  /\ listPc = "resolved"
  /\ registryListing.registry = "hub"
  /\ Len(registryListing.pages) > 5
  /\ \A i \in 1..Len(registryListing.pages) :
       /\ registryListing.pages[i].status = 200
       /\ registryListing.pages[i].results # <<>>
       /\ registryListing.pages[i].next
  /\ listResult.requests = 5
  /\ listResult.value = "1.0.5"

\* The manifest cap is reached as well: a list of more than 100 tags has been
\* resolved with 100 manifest requests.
ManifestCapReached ==
  /\ listPc = "resolved"
  /\ registryListing.registry = "ghcr"
  /\ registryListing.status = 200
  /\ Len(registryListing.tags) > 100
  /\ listResult.manifests = 100

(***************************************************************************)
(* Properties of the dispatch by registry host (SpecDispatch).             *)
(***************************************************************************)
\* The images whose registry host is neither absent, docker.io,
\* index.docker.io nor ghcr.io.
UnsupportedImages ==
  { image \in DispatchImages :
      LET host == parseImageReference(image).registry
      IN /\ host # NULL
         /\ ToLower(host) \notin {"docker.io", "index.docker.io", "ghcr.io"} }

\* C25: resolveVersionFromDigest for an image of an unsupported registry
\* host returns null at once, sends no request, and neither reads nor writes
\* the tag cache, whatever the cache holds.
C25_UnsupportedSkipped ==
  [][\A image \in UnsupportedImages :
       Resolve(image, ImageDigest) =>
         LET r == resolutions'[Len(resolutions')]
         IN /\ r.state = "returned" /\ r.result = NULL
            /\ ~r.requested /\ ~r.wrote /\ r.validUntil = 0
            /\ tagCache' = tagCache
            /\ PendingResolutions' = PendingResolutions]_vars

\* An image of quay.io has been resolved while the cache held the entry of
\* the repository of the same name at ghcr.io.
C25_Witness ==
  /\ Len(resolutions) = 2
  /\ resolutions[1].registry = "ghcr" /\ resolutions[1].wrote
  /\ resolutions[1].key \in DOMAIN tagCache
  /\ resolutions[2].registry = NULL /\ resolutions[2].state = "returned"
  /\ resolutions[2].startedAt >= resolutions[1].endedAt

(***************************************************************************)
(* Properties of the choice of the containers to resolve (SpecSelect).     *)
(***************************************************************************)
\* The resolver has been invoked for the container of the payload.
Invoked(item) == \E c \in ResolutionIdx : resolutions[c].containerKey = item.containerKey

\* C27: the backfill invokes the resolver for a container only if the
\* container has an image digest and its version is missing, "latest",
\* "nightly", "main", digest-shaped or not of semantic-version shape; never
\* for a container whose version has semantic-version shape, never for one
\* without a digest.
C27_ResolvedOnlyWhenNeeded ==
  backfillPc # "idle" =>
    \A i \in 1..Len(payloadItems) :
      LET item == payloadItems[i]
      IN /\ Invoked(item) =>
              /\ item.imageDigest \notin {NULL, ""}
              /\ \/ item.version \in {NULL, "", "latest", "nightly", "main"}
                 \/ isDigest(item.version)
                 \/ ~isSemanticVersion(item.version)
         /\ (item.version # NULL /\ isSemanticVersion(item.version)) => ~Invoked(item)
         /\ item.imageDigest = NULL => ~Invoked(item)

\* A payload of a container with the version "1.2.3" and a container with
\* the version "latest", both with a digest, has been backfilled: the
\* resolver was invoked for the second alone.
C27_Witness ==
  /\ backfillPc = "done" /\ Len(payloadItems) = 2
  /\ payloadItems[1].version = "1.2.3" /\ payloadItems[1].imageDigest # NULL
  /\ payloadItems[2].version = "latest" /\ payloadItems[2].imageDigest # NULL
  /\ Len(resolutions) = 1 /\ resolutions[1].containerKey = payloadItems[2].containerKey
  /\ resolutions[1].requested

(***************************************************************************)
(* Properties of the icon tiers and of the description (SpecTiers).        *)
(***************************************************************************)
\* The texts an app's icon may come from, and the URL of the icon map for
\* the app: the valid URL under the image string, else the valid URL under
\* the image base.
IconTexts(entry) ==
  << entry.iconHint, entry.labels["homelab.icon"], entry.labels["app.icon"],
     entry.labels["icon"] >>

MappedUrl(entry) ==
  LET base == getImageBase(parseImageReference(entry.app.image))
      exact == IF entry.app.image \in DOMAIN iconMap
               THEN sanitizeUrl(iconMap[entry.app.image]) ELSE NULL
  IN IF exact # NULL THEN exact
     ELSE IF base \in DOMAIN iconMap THEN sanitizeUrl(iconMap[base]) ELSE NULL

\* resolveIcon is waiting for a provider on behalf of app k.
IconCallPending(k) == metaPc[k].phase = "icon" /\ metaPc[k].pending

\* C28: an app without a valid label or hint URL, for which the icon map
\* holds a valid URL under its image string or under its image base, gets
\* that URL (the one of the image string first), and resolveIcon probes no
\* CDN and asks no registry hub for it.
C28_OverrideSkipsProviders ==
  aggPc \in {"metadata", "done"} =>
    \A k \in MetaIdx :
      ( /\ \A i \in 1..4 : sanitizeUrl(IconTexts(workingApps[k])[i]) = NULL
        /\ MappedUrl(workingApps[k]) # NULL )
      => /\ workingApps[k].app.icon = MappedUrl(workingApps[k])
         /\ ~IconCallPending(k)
         /\ cdnIconCache = <<>>
         /\ aggPc = "done" => response.apps[k].icon = MappedUrl(workingApps[k])

\* nginx:1.25 with a label that is no http URL, under a map whose entry for
\* the image is no URL and whose entry for the base is one: the base entry is
\* the icon although the CDN holds an nginx icon.
C28_Witness ==
  /\ aggPc = "done" /\ Len(response.apps) = 1
  /\ workingApps[1].app.image = "nginx:1.25"
  /\ workingApps[1].labels["app.icon"] = "ftp://icons.test/n.png"
  /\ "nginx:1.25" \in DOMAIN iconMap /\ iconMap["nginx:1.25"] = "map.test/no-scheme.png"
  /\ providerMode["cdn"] = "found" /\ providerMode["repo"] = "found"
  /\ response.apps[1].icon = "https://map.test/base.png"
  /\ cdnIconCache = <<>>

\* The tier of a call of resolveIcon, behind the label (1) and the map (2).
TierOf(call) ==
  CASE call.provider = "cdn" -> IF StartsWith(call.url, SelfhstBase) THEN 3 ELSE 4
    [] call.provider = "repo" -> 5
    [] call.provider = "product" -> 6
    [] call.provider = "hub" -> 7

\* The icon the call's provider has for the call, NULL when it has none or
\* does not answer.
IconServed(call) == callResult(call, answerOf(call, providerMode[call.provider])).icon

IconCallsOf(entry) == SeqToSet(iconCalls(parseImageReference(entry.app.image)))

\* The label or hint URL of an app: the first text present, if a valid URL.
LabelUrl(entry) == sanitizeUrl(FirstNonNull(IconTexts(entry)))

\* C29: resolveIcon asks its tiers in the order label or hint, icon map,
\* first CDN library, second CDN library, repository info, product search,
\* product page: a tier is asked only when no tier before it has an icon, and
\* the icon is the one of the first tier that has one.  A call that fails or
\* is aborted counts as a tier without icon.
C29_TiersInOrder ==
  aggPc \in {"metadata", "done"} =>
    \A k \in MetaIdx :
      /\ IconCallPending(k) =>
           /\ LabelUrl(workingApps[k]) = NULL
           /\ MappedUrl(workingApps[k]) = NULL
           /\ k \notin callErrors =>
                \A q \in IconCallsOf(workingApps[k]) :
                  TierOf(q) < TierOf(PendingCall(k)) => IconServed(q) = NULL
      /\ (metaPc[k].phase # "icon" /\ k \notin callErrors) =>
           IF LabelUrl(workingApps[k]) # NULL
           THEN workingApps[k].app.icon = LabelUrl(workingApps[k])
           ELSE IF MappedUrl(workingApps[k]) # NULL
           THEN workingApps[k].app.icon = MappedUrl(workingApps[k])
           ELSE IF \E q \in IconCallsOf(workingApps[k]) : IconServed(q) # NULL
           THEN \E q \in IconCallsOf(workingApps[k]) :
                  /\ workingApps[k].app.icon = IconServed(q) /\ IconServed(q) # NULL
                  /\ \A other \in IconCallsOf(workingApps[k]) :
                       TierOf(other) < TierOf(q) => IconServed(other) = NULL
           ELSE workingApps[k].app.icon = NULL

\* acme/widget, whose map entry is no URL and whose icon only the second CDN
\* library holds, while the registry hub has a logo as well: the icon is the
\* one of the second library.
C29_Witness ==
  /\ aggPc = "done" /\ Len(response.apps) = 1
  /\ workingApps[1].app.image = "acme/widget:1"
  /\ "acme/widget" \in DOMAIN iconMap
  /\ providerMode["cdn"] = "found" /\ providerMode["repo"] = "found"
  /\ callErrors = {}
  /\ response.apps[1].icon = HypoLuxaBase \o "widget.svg"
  /\ Cardinality(DOMAIN cdnIconCache) = 3

\* The text an app's description originates from when a label or the hint
\* carries one.
DescriptionText(entry) ==
  FirstNonNull(<< entry.descriptionHint,
                  entry.labels["org.opencontainers.image.description"],
                  entry.labels["description"] >>)

DescriptionNeverProbes ==
  \A k \in MetaIdx :
    (metaPc[k].phase = "description" /\ metaPc[k].pending) => PendingCall(k).provider # "cdn"

\* C30: the description of an app that originates from a label or hint text
\* is that text trimmed and cut to 600 characters, and the description
\* resolution sends no request to a CDN icon library.
C30_HintSanitized ==
  aggPc \in {"metadata", "done"} =>
    /\ DescriptionNeverProbes
    /\ aggPc = "done" =>
         \A k \in MetaIdx :
           ~Falsy(DescriptionText(workingApps[k])) =>
             response.apps[k].description = Slice(Trim(DescriptionText(workingApps[k])), 600)

\* What holds instead: a text that comes from a label other than the hint is
\* sanitized, the hint is the description as it stands, and no CDN is asked.
LabelTextSanitized ==
  aggPc \in {"metadata", "done"} =>
    /\ DescriptionNeverProbes
    /\ aggPc = "done" =>
         \A k \in MetaIdx :
           ~Falsy(DescriptionText(workingApps[k])) =>
             response.apps[k].description =
               IF workingApps[k].descriptionHint # NULL THEN workingApps[k].descriptionHint
               ELSE Slice(Trim(DescriptionText(workingApps[k])), 600)


(***************************************************************************)
(* Properties of the app identity (SpecIdentity).                          *)
(***************************************************************************)
\* The registry-and-repository key of every image string listed, written
\* out by hand: lower case, docker.io and index.docker.io left out, tag and
\* digest left out.
RepositoryKey ==
  [ image \in { k.Image : k \in IdentityKinds } \ {""} |->
      CASE image = "nginx:1.25" -> "nginx"
        [] image = "docker.io/nginx:latest" -> "nginx"
        [] image = "Index.Docker.IO/Nginx@sha256:0123456789abcdef0123" -> "nginx"
        [] image = "nginx:3" -> "nginx"
        [] image = "ghcr.io/acme/tool:1" -> "ghcr.io/acme/tool"
        [] image = "GHCR.io/Acme/Tool:2" -> "ghcr.io/acme/tool"
        [] image = "quay.io/acme/tool:1" -> "quay.io/acme/tool" ]

\* The key by priority: app label, repository key, compose service label,
\* stack service label, image basename (empty when the image string is).
IdentityKey(container) ==
  IF container.Labels["homelab.app"] # NULL THEN container.Labels["homelab.app"]
  ELSE IF container.Image \in DOMAIN RepositoryKey THEN RepositoryKey[container.Image]
  ELSE IF container.Labels["com.docker.compose.service"] # NULL
       THEN container.Labels["com.docker.compose.service"]
  ELSE IF container.Labels["com.docker.swarm.service.name"] # NULL
       THEN container.Labels["com.docker.swarm.service.name"]
  ELSE ""

RegistriesApart ==
  /\ aggPc = "done"
  /\ Len(containerMatrix[1]) = 2
  /\ containerMatrix[1][1].Image = "GHCR.io/Acme/Tool:2"
  /\ containerMatrix[1][2].Image = "quay.io/acme/tool:1"
  /\ { response.apps[k].id : k \in 1..Len(response.apps) } =
       {"ghcr.io/acme/tool", "quay.io/acme/tool"}

\* The service label names the app of a container without an image string.
ServiceLabelKey ==
  /\ aggPc = "done"
  /\ Len(containerMatrix[1]) = 1 /\ containerMatrix[1][1].Image = ""
  /\ Len(response.apps) = 1 /\ response.apps[1].id = "stack-web"


(***************************************************************************)
(* Properties of the order of the aggregate result (SpecAggregate).        *)
(***************************************************************************)
Ascending(q, less) == \A i, j \in 1..Len(q) : i < j => less[i][j] <= 0

\* A filter list: every value of the set once, in code-unit order.
FilterOf(q, values) ==
  /\ SeqToSet(q) = values
  /\ \A i, j \in 1..Len(q) : i < j => StrLess(q[i], q[j])

AppsOrdered == Ascending(response.apps, byDisplayName(response.apps))

InstancesOrdered ==
  \A k \in 1..Len(response.apps) :
    Ascending(response.apps[k].containers, bySourceLabel(response.apps[k].containers))

VersionsAscending ==
  \A k \in 1..Len(response.apps) :
    Ascending(response.apps[k].versions, byVersion(response.apps[k].versions))

FiltersOrdered ==
  /\ FilterOf(response.appFilters,
              { response.apps[k].displayName : k \in 1..Len(response.apps) })
  /\ FilterOf(response.serverFilters, { c.sourceLabel : c \in ResponseInstances })

\* C32: in the result the apps are in display-name order, every app's
\* instances in host-label order, every app's versions in ascending
\* comparator order, and the two filter lists hold every display name and
\* every host label of the result once, in sorted order.
C32_ResultOrdered ==
  aggPc = "done" =>
    AppsOrdered /\ InstancesOrdered /\ VersionsAscending /\ FiltersOrdered

\* Apps, instances and filter lists are ordered as stated.
OrderedApartFromVersions ==
  aggPc = "done" => AppsOrdered /\ InstancesOrdered /\ FiltersOrdered


(***************************************************************************)
(* Properties of the runtime-client pool (SpecPool).                       *)
(***************************************************************************)
\* The calls that returned a client.
Served == { c \in 1..Len(handed) : handed[c].client # NULL }

\* C33: the pool holds one client per source name and as many clients as
\* were ever constructed; the first call for a source constructs its
\* client, every call for the source from any request returns that client,
\* and the pool still holds under the source's name the client any earlier
\* call returned (no client is removed or replaced).
C33_OneClientPerSource ==
  /\ Cardinality(DOMAIN clients) = created
  /\ \A c \in Served :
       /\ handed[c].name \in DOMAIN clients
       /\ clients[handed[c].name] = handed[c].client
  /\ \A c, d \in Served : handed[c].name = handed[d].name => handed[c].client = handed[d].client
  /\ \A c \in 1..Len(handed) :
       ~buildOptionsThrows(CHOOSE src \in SeqToSet(sources) : src.name = handed[c].name)
         => c \in Served

C33_Witness ==
  /\ Len(handed) = 4
  /\ handed[1].name = "beta" /\ handed[1].request = "apps"
  /\ handed[2].name = "alpha"
  /\ handed[3].name = "beta" /\ handed[3].request = "stats"
  /\ handed[4].name = "beta" /\ handed[4].request = "details"
  /\ handed[1].client = "docker1" /\ handed[3].client = "docker1"
  /\ handed[4].client = "docker1" /\ handed[2].client = "docker2"
  /\ created = 2


(***************************************************************************)
(* The result and the order of the hosts' answers (SpecAggregate).         *)
(***************************************************************************)
Answering == { n \in DOMAIN hostMode : hostMode[n] \in {"up", "listonly"} }

\* The results of collecting the hosts one after the other in the order of
\* the configuration: the lists of the hosts that answer, grouped, sorted
\* and counted, with the icon and description every listed container hints
\* at.  There is one result per outcome the version sorts may have.
ResultsInTurn ==
  LET matrix == [j \in SourceIdx |->
                   [source |-> sources[j],
                    containers |-> IF sources[j].name \in Answering
                                   THEN hostContainers[sources[j].name] ELSE <<>>]]
      info == [n \in { sources[j].name : j \in SourceIdx } |->
                 IF hostMode[n] = "up" THEN "full" ELSE "none"]
  IN { assembleResponse(
         [k \in 1..Len(sorted) |->
            [sorted[k].app EXCEPT !.icon = HintLabels["homelab.icon"],
                                  !.description = HintLabels["homelab.description"]]],
         <<>>, info) :
       sorted \in sortVersionSets(groupContainers(<<>>, matrix)) }

\* C34: whatever the order in which the hosts' answers and failures arrive,
\* apps, filter lists, per-host statistics and totalContainers of the
\* result are those of collecting the hosts in turn, and the warnings name
\* the failed hosts, once each, in some order.
C34_OrderOfArrivalIrrelevant ==
  aggPc = "done" =>
    /\ \E r \in ResultsInTurn :
         /\ response.apps = r.apps
         /\ response.appFilters = r.appFilters
         /\ response.serverFilters = r.serverFilters
         /\ response.serverStats = r.serverStats
         /\ response.totalContainers = r.totalContainers
    /\ { response.warnings[k].source : k \in 1..Len(response.warnings) } =
         { sources[j].name : j \in SourceIdx } \ Answering
    /\ Len(response.warnings) = Cardinality({ sources[j].name : j \in SourceIdx } \ Answering)

\* The second host has answered ten seconds before the first is given up.
C34_Witness ==
  /\ aggPc = "done"
  /\ fetchState[1] = "failed" /\ fetchDuration[1] = dockerApiTimeout
  /\ fetchState[2] = "ok" /\ fetchDuration[2] = 0
  /\ Len(response.apps) = 2 /\ response.totalContainers = 3
  /\ Len(response.warnings) = 1

\* Both hosts fail, the second before the first.
FailuresReversed ==
  /\ aggPc = "done"
  /\ Len(response.warnings) = 2
  /\ response.warnings[1].source = sources[2].name
  /\ response.warnings[2].source = sources[1].name


(***************************************************************************)
(* Conservation of containers (SpecAggregate).                             *)
(***************************************************************************)
\* The places (app, position) of the result at which the instance of a
\* collected container stands.
PlacesOf(x) ==
  { <<k, m>> \in UNION { { <<a, b>> : b \in 1..Len(response.apps[a].containers) } :
                         a \in 1..Len(response.apps) } :
      /\ response.apps[k].containers[m].sourceId = x.source.name
      /\ response.apps[k].containers[m].containerId = x.container.Id }

RECURSIVE SumOfTotals(_)
SumOfTotals(stats) ==
  IF Len(stats) = 0 THEN 0 ELSE Head(stats).total + SumOfTotals(Tail(stats))

\* C35: every container a host has returned stands at exactly one place of
\* the result, the result holds no other instance, and totalContainers is
\* the number of collected containers and the sum of the totals of the
\* per-host records, each of which has total = running + stopped.
C35_ContainersConserved ==
  aggPc = "done" =>
    /\ \A x \in Collected : Cardinality(PlacesOf(x)) = 1
    /\ Len(instancePairs(response.apps)) = Cardinality(Collected)
    /\ response.totalContainers = Cardinality(Collected)
    /\ response.totalContainers = SumOfTotals(response.serverStats)
    /\ \A k \in 1..Len(response.serverStats) :
         response.serverStats[k].total =
           response.serverStats[k].running + response.serverStats[k].stopped

C35_Witness ==
  /\ aggPc = "done"
  /\ Len(containerMatrix[1]) = 2 /\ Len(containerMatrix[2]) = 1
  /\ response.totalContainers = 3
  /\ Len(response.serverStats) = 2
  /\ \E k \in 1..2 : /\ response.serverStats[k].total = 2
                       /\ response.serverStats[k].running = 1
                       /\ response.serverStats[k].crashed = 1


(***************************************************************************)
(* Instance versions and the version set of their app (SpecVersions).      *)
(***************************************************************************)
\* C36: in the result every instance's version, when it is not null, is an
\* element of the versions of the app that holds the instance.
C36_InstanceVersionInSet ==
  aggPc = "done" =>
    \A k \in 1..Len(response.apps) :
      \A m \in 1..Len(response.apps[k].containers) :
        response.apps[k].containers[m].version # NULL
          => response.apps[k].containers[m].version \in SeqToSet(response.apps[k].versions)

\* The version a container adds to its app's set is an element of it, and
\* an instance's version is the container's version label.
DerivedVersionInSet ==
  aggPc = "done" =>
    \A x \in Collected :
      \A k \in AppsHolding(x) :
        /\ ~Falsy(containerVersion(x.container))
             => containerVersion(x.container) \in SeqToSet(response.apps[k].versions)
        /\ \A m \in 1..Len(response.apps[k].containers) :
             response.apps[k].containers[m].containerId = x.container.Id
               => response.apps[k].containers[m].version =
                    x.container.Labels["org.opencontainers.image.version"]


(***************************************************************************)
(* Failed registry requests and the tag cache (SpecListing, SpecTagChoice).*)
(***************************************************************************)
\* A request for a page of the tag listing or for the tag list was made and
\* failed with a status that is neither success nor 404.
ListingRequestFailed ==
  IF registryListing.registry = "hub"
  THEN \E i \in 1..Len(registryListing.pages) :
         /\ i <= listResult.requests
         /\ registryListing.pages[i].status \notin {200, 404}
  ELSE registryListing.status \notin {200, 404}

\* A request for the manifest of a listed tag was made and failed.
ManifestRequestFailed ==
  /\ registryListing.registry = "ghcr"
  /\ registryListing.status = 200
  /\ \E i \in 1..Len(registryListing.tags) :
       i <= listResult.manifests /\ ~registryListing.tags[i].ok

\* C37: a resolve during which a registry request has failed (not with 404)
\* returns null and writes no entry to the tag cache.
C37_FailureLeavesCacheUnchanged ==
  (listPc = "resolved" /\ (ListingRequestFailed \/ ManifestRequestFailed))
    => (listResult.value = NULL /\ ~listResult.cached)

\* The part that holds: a failed request for the tag listing.
ListingFailureNotCached ==
  (listPc = "resolved" /\ ListingRequestFailed)
    => (listResult.value = NULL /\ ~listResult.cached)

\* C38: at the second registry a resolve during which the request for the
\* manifest of a listed tag has failed caches no negative entry.
C38_NoNegativeEntryAfterFailure ==
  (listPc = "resolved" /\ ManifestRequestFailed)
    => ~(listResult.cached /\ listResult.value = NULL)

\* The part that holds: a negative entry is cached only by a resolve whose
\* requests for the tag listing have all succeeded.
NegativeEntryOnlyWhenListed ==
  (listPc = "resolved" /\ listResult.cached /\ listResult.value = NULL)
    => ~ListingRequestFailed


(***************************************************************************)
(* The repository the backfill queries (SpecBackfill).                     *)
(***************************************************************************)
\* The calls the backfill has started for the container of the payload.
CallsFor(i) ==
  { c \in ResolutionIdx : resolutions[c].containerKey = payloadItems[i].containerKey }

\* C39: every call the backfill starts for a container queries the registry
\* and repository of the image that container runs, also for a container
\* grouped under the image of another.
C39_QueriesOwnRepository ==
  \A i \in 1..Len(payloadItems) : \A c \in CallsFor(i) :
    /\ resolutions[c].registry # NULL => resolutions[c].key = payloadItems[i].publishedAs
    /\ resolutions[c].registry = registryOf(parseImageReference(payloadItems[i].containerImage))

\* What the backfill does query: registry and repository of the image of the
\* container's app.
QueriesAppRepository ==
  \A i \in 1..Len(payloadItems) : \A c \in CallsFor(i) :
    /\ resolutions[c].registry # NULL =>
         resolutions[c].key = tagCacheKey(parseImageReference(payloadItems[i].image),
                                          payloadItems[i].imageDigest)
    /\ resolutions[c].registry = registryOf(parseImageReference(payloadItems[i].image))

====
